---------------------------- MODULE Spec2Model ----------------------------
(***************************************************************************)
(* State-machine model of the infogen retry workflow:                      *)
(*   services/orchestrator.py        the outer graph and its routing       *)
(*   services/agents/query_interpreter.py   enhance_initial_query          *)
(*   services/agents/web_searcher.py search_node, process_node, the event  *)
(*                                   loop of process_search_results_async  *)
(*   services/clients/cached_tavily_client.py   CachedTavilyClient.search  *)
(*   services/agents/content_editor.py          edit_content               *)
(*   services/clients/cached_tavily_client_v2.py  search, _search_internal,*)
(*                                   _cache_search_result,                 *)
(*                                   _get_search_cache_duration and the    *)
(*                                   cache query of _extract_internal      *)
(*                                   __init__, close,                      *)
(*                                   _execute_with_connection, extract     *)
(*   services/clients/cached_tavily_client.py   extract, _get_db_pool,     *)
(*                                   close, update_url_cache               *)
(*   services/clients/cached_embedding_client.py  _get_embeddings_internal,*)
(*                                   _nearest_neighbors_internal           *)
(*   services/clients/cached_url_validator_client.py  validate_url         *)
(*                                                                         *)
(* Specifications: Spec (one process_query run), InvokeSpec (graph.invoke  *)
(* on a caller-built state), LiveSpec (Spec with progress), ProcessSpec    *)
(* (process_node on any number of results), LookupSpec (the cache queries  *)
(* of both Tavily clients against a store that holds rows), ClientSpec     *)
(* (calls of the v2 client's search and TTL policy on a store that starts  *)
(* empty), StoreSpec (the cache writes of both clients and the lookups),   *)
(* PoolSpec (threads calling the pooled clients), CloseSpec (construction  *)
(* and close of pooled client objects), LazySpec (tasks sharing one v1     *)
(* client's lazily created pool), RaceSpec (two callers populating one     *)
(* cache key), ExtractSpec (extract of both Tavily clients followed by the *)
(* classification of process_node), EmbeddingsSpec (get_embeddings on a    *)
(* list of texts), ValidateSpec (validate_url).                            *)
(*                                                                         *)
(* Reading of the library calls, as the source itself relies on them:      *)
(*  - a node wrapper that calls an agent coroutine gets the state that     *)
(*    coroutine returns (the call is taken as awaited);                    *)
(*  - each event of app.astream(inputs) is the dictionary a node of the    *)
(*    inner graph returned;                                                *)
(*  - the dictionary a routing function receives is the run's state, so    *)
(*    an assignment made there is seen by the next node.                   *)
(*  - psycopg2's ThreadedConnectionPool.getconn raises PoolError when      *)
(*    maxconn connections are checked out and when the pool is closed;     *)
(*    closeall closes the pool for every holder of it;                     *)
(*  - asyncpg.create_pool is awaited, so other tasks run before the pool   *)
(*    is assigned;                                                         *)
(*  - under INSERT .. ON CONFLICT (key) DO UPDATE a second writer of the   *)
(*    key waits for the first to commit and then updates its row; under    *)
(*    ON CONFLICT DO NOTHING the first row stays.                          *)
(* The environment variables OPENAI_API_KEY and TAVILY_API_KEY do not      *)
(* change during a run.  Collaborators (reformulation model, embedding     *)
(* provider, url cache, search provider, extraction provider, classifier)  *)
(* answer every call, with any of the outcomes enumerated below.           *)
(***************************************************************************)
EXTENDS Integers, Sequences, FiniteSets, TLC

(* ----------------------------- bounds --------------------------------- *)
\* number of distinct reformulations the reformulation model can answer
NumQueries == 2
\* number of distinct pages per domain the cache or the provider can return
NumPaths == 3
\* longest exclusion list a caller hands to graph.invoke (InvokeSpec only)
MaxInitBad == 1

(* ------------------------ program constants --------------------------- *)
MAX_SEARCH_TRIES == 3
MIN_REQUIRED_RESULTS == 1
MAX_TAVILY_SEARCH_RESULTS == 2
MAX_CONCURRENT_REQUESTS == 5

(* ------------------------------ values -------------------------------- *)
None == <<>>
Queries == {<<"q", i>> : i \in 1..NumQueries}
Domains == {"a.com", "b.com"}
\* a URL is its authority component and a path; urlparse(url).netloc is .netloc
URLs == {[netloc |-> d, path |-> p] : d \in Domains, p \in 1..NumPaths}
\* kwargs['exclude_domains'].extend([...]) in CachedTavilyClient.search
DenyList == <<"facebook.com", "tiktok.com", "youtube.com">>

Range(s) == {s[i] : i \in 1..Len(s)}
NoDuplicates(s) == \A i, j \in 1..Len(s) : s[i] = s[j] => i = j
\* duplicate-free lists over S of length at most n
RECURSIVE ListsUpTo(_, _)
ListsUpTo(S, n) ==
    IF n = 0 THEN {<<>>}
    ELSE LET shorter == ListsUpTo(S, n - 1)
         IN  shorter \cup {Append(l, d) : l \in {x \in shorter : Len(x) = n - 1},
                                          d \in S}

(* --------- clients/cached_tavily_client*.py: the cache tables --------- *)
\* how many minutes the storage clock advances in LookupSpec
MaxTicks == 1
\* most rows a cache table holds at the start of LookupSpec
LookupRows == 2

\* interval '1 day', in minutes
MinutesPerDay == 1440
\* update_url_cache, update_content_cache: expires_after_days default
DEFAULT_EXPIRES_AFTER_DAYS == 30
\* CachedTavilyClient.CACHE_EXPIRY_MINUTES (v2)
CACHE_EXPIRY_MINUTES == 14400
\* the similarity thresholds of the queries, in tenths: >= 0.2 and > 0.4
URL_SIMILARITY_TENTHS == 2
SEARCH_SIMILARITY_TENTHS == 4

\* the instant at which a run starts, late enough for a row of any age
Epoch == DEFAULT_EXPIRES_AFTER_DAYS * MinutesPerDay
TableNames == {"url_cache", "content_cache", "tavily_search_cache",
               "search_cache_duration", "tavily_extract_cache"}
\* the table of the embedding client, in the same database
EmbeddingTable == "embedding_cache"
EmptyDb == [t \in TableNames \cup {EmbeddingTable} |-> {}]
\* SQL NULL in a time_range column or parameter
NULL == "NULL"
\* no cache lookup was made yet
NoLookup == [table |-> "none", at |-> Epoch, args |-> <<>>, found |-> {}]
\* no decision of the TTL policy
NoDecision == [time_range |-> NULL, cache_duration_minutes |-> 0]
\* no call of a cache client was made yet
NoCall == [op |-> "none", at |-> Epoch, args |-> <<>>, cached |-> {},
           llm |-> {}, decision |-> NoDecision, found |-> {},
           provider |-> {}, raised |-> FALSE, value |-> <<>>,
           existed |-> FALSE]
NoClient == [calls |-> 0, llm_calls |-> 0, api_calls |-> 0, last |-> NoCall]

\* text-embedding-3-small answers vectors of length 1; the model writes them
\* in four integer coordinates, in units of 1/EmbScale
EmbScale == 50
\* the embedding of the query that is looked up
QueryEmbedding == <<50, 0, 0, 0>>
\* the embedding of a query worded a little differently: its Euclidean
\* distance to QueryEmbedding is sqrt(0.08), so 1 - distance is about 0.72
NearEmbedding == <<48, 14, 0, 0>>
\* embeddings of cached rows: the query's own; two at Euclidean distance
\* 0.8 and 0.6 from it (1 - distance = 0.2 and 0.4); two at cosine
\* similarity 0.2 and 0.4 to it; a near one
Embeddings == {<<50, 0, 0, 0>>, <<34, 32, 16, 8>>, <<41, 27, 9, 3>>,
               <<10, 20, 20, 40>>, <<20, 40, 20, 10>>, NearEmbedding}

Dot(a, b) == a[1] * b[1] + a[2] * b[2] + a[3] * b[3] + a[4] * b[4]
\* the square of a <-> b, pgvector's Euclidean distance, in units of
\* 1/EmbScale^2
SqDist(a, b) == (Dot(a, a) + Dot(b, b)) - 2 * Dot(a, b)

\* 1 - (a <-> b) >= T/10, that is (a <-> b) <= (10 - T)/10
SimAtLeast(a, b, T) ==
    100 * SqDist(a, b) <= (10 - T) * (10 - T) * EmbScale * EmbScale

\* 1 - (a <-> b) > T/10
SimAbove(a, b, T) ==
    100 * SqDist(a, b) < (10 - T) * (10 - T) * EmbScale * EmbScale

\* the cosine similarity of a and b is T/10, is below T/10
CosineEquals(a, b, T) ==
    Dot(a, b) > 0 /\ 100 * Dot(a, b) * Dot(a, b) = T * T * Dot(a, a) * Dot(b, b)
CosineBelow(a, b, T) ==
    \/ Dot(a, b) <= 0
    \/ 100 * Dot(a, b) * Dot(a, b) < T * T * Dot(a, a) * Dot(b, b)

\* CURRENT_TIMESTAMP < created_at + (expires_after_days * interval '1 day')
NotExpiredDays(row, t) ==
    t < row.created_at + row.expires_after_days * MinutesPerDay

\* an expiry test that still accepts the row at its expiry instant
NotExpiredMinutes_inclusive(row, t) ==
    t <= row.creation_date + row.expires_after_minutes

\* CURRENT_TIMESTAMP < creation_date + (expires_after_minutes * interval '1 minute')
NotExpiredMinutes(row, t) ==
    t < row.creation_date + row.expires_after_minutes

\* ORDER BY url: the order of the model's URLs
DomainRank(d) == IF d = "a.com" THEN 1 ELSE 2
UrlBefore(u, v) ==
    \/ DomainRank(u.netloc) < DomainRank(v.netloc)
    \/ u.netloc = v.netloc /\ u.path < v.path

\* v1 _get_cached_urls: the rows its query selects.  DISTINCT ON (url) keeps
\* per url a row of greatest similarity, ORDER BY url, LIMIT max_results.
UrlCandidates(rows, q) ==
    {r \in rows : SimAtLeast(r.embedding, q, URL_SIMILARITY_TENTHS)}
get_cached_urls(rows, q, t, max_results) ==
    LET live == {r \in UrlCandidates(rows, q) : NotExpiredDays(r, t)}
        best == {r \in live :
                   \A s \in live : s.url = r.url
                      => SqDist(r.embedding, q) <= SqDist(s.embedding, q)}
        urls == {r.url : r \in best}
        kept == {u \in urls :
                   Cardinality({v \in urls : UrlBefore(v, u)}) < max_results}
    IN  {r \in best : r.url \in kept}

\* v1 extract: the content_cache rows of the asked urls
ContentCandidates(rows, urls) == {r \in rows : r.url \in urls}
cached_contents(rows, urls, t) ==
    {r \in ContentCandidates(rows, urls) : NotExpiredDays(r, t)}

\* an expiry that is the decision's cache duration whatever the time_range
expires_after_minutes_for_dynamic(time_range, cache_duration) == cache_duration

\* v2 _cache_search_result: the expiry stored with a search response
expires_after_minutes_for(time_range, cache_duration) ==
    IF time_range = "day" THEN 1440
    ELSE IF time_range = "week" THEN 10080
    ELSE cache_duration

\* v2 _search_internal: the rows its query can answer with (LIMIT 1 after
\* ORDER BY max_results DESC, distance ASC)
SearchCandidates(rows, q, search_depth, max_results, time_range) ==
    {r \in rows : /\ SimAbove(r.embedding, q, SEARCH_SIMILARITY_TENTHS)
                  /\ r.search_depth = search_depth
                  /\ r.max_results >= max_results
                  /\ \/ r.time_range = NULL /\ time_range = NULL
                     \/ r.time_range = time_range}
search_cache_lookup(rows, q, search_depth, max_results, time_range, t) ==
    LET live == {r \in SearchCandidates(rows, q, search_depth, max_results,
                                        time_range) : NotExpiredMinutes(r, t)}
    IN  {r \in live :
           \A s \in live :
              \/ r.max_results > s.max_results
              \/ /\ r.max_results = s.max_results
                 /\ SqDist(r.embedding, q) <= SqDist(s.embedding, q)}

\* v2 _get_search_cache_duration.check_cache: the rows it can answer with
\* (LIMIT 1 after ORDER BY distance ASC)
DurationCandidates(rows, q) ==
    {r \in rows : SimAbove(r.embedding, q, SEARCH_SIMILARITY_TENTHS)}
check_cache(rows, q, t) ==
    LET live == {r \in DurationCandidates(rows, q) : NotExpiredMinutes(r, t)}
    IN  {r \in live :
           \A s \in live : SqDist(r.embedding, q) <= SqDist(s.embedding, q)}

\* v2 _extract_internal: the rows its query for one url can answer with
ExtractCandidates(rows, url) == {r \in rows : r.url = url}
extract_cache_lookup(rows, url, t) ==
    {r \in ExtractCandidates(rows, url) : NotExpiredMinutes(r, t)}

VARIABLES
    node,             \* the graph node that runs next; "finished" after a finish point
    finish_point,     \* the finish point the run ended in, None before
    status,           \* WorkflowState.status
    error,            \* WorkflowState.error: None or the message, as its pieces
    retry_count,      \* WorkflowState.retry_count
    enhanced_query,   \* WorkflowState.enhanced_query
    search_results,   \* WorkflowState.search_results: the URLs of its entries
    bad_domains,      \* WorkflowState.bad_domains: a list
    infographic_content, \* WorkflowState.infographic_content is set
    previous_enhanced_query, \* the rejected query named in the last prompt
    openai_key,       \* OPENAI_API_KEY is set
    tavily_key,       \* TAVILY_API_KEY is set
    ws_pc,            \* position inside web_searcher: "search" | "process"
    task,             \* per URL of the attempt: the position of its task
    qi_calls,         \* history: number of query_interpreter invocations
    ws_hist,          \* history: the outcome of every web_searcher invocation
    exhausted,        \* history: route_after_search took its max-retries branch
    ever_bad,         \* history: every domain bad_domains has held in this run
    search_calls,     \* history: number of CachedTavilyClient.search calls
    cached_rows,      \* history: the rows _get_cached_urls gave the last search
    returned,         \* history: the URLs the last search call returned
    now,              \* the storage clock (CURRENT_TIMESTAMP), in minutes
    db,               \* the rows of every cache table
    lookup,           \* the last cache lookup: its table, arguments, answer
    client,           \* history of the cache clients' calls: how many, how
                      \* many reached the reasoning model and the search
                      \* provider, and what the last call did
    connection_pools, \* the class attribute _connection_pools at this
                      \* process's key: the pool it holds, 0 when it has none
    pools,            \* every connection pool created so far, in order
    instances,        \* the client objects: their pool reference and state
    ops,              \* the concurrent calls: position, connections held
    http              \* the validate_url call: its requests and its answer

vars == <<node, finish_point, status, error, retry_count, enhanced_query,
          search_results, bad_domains, infographic_content,
          previous_enhanced_query, openai_key, tavily_key, ws_pc, task,
          qi_calls, ws_hist, exhausted, ever_bad, search_calls, cached_rows,
          returned, now, db, lookup, client, connection_pools, pools,
          instances, ops, http>>

wf_vars == <<status, error, retry_count, enhanced_query, search_results,
             bad_domains, infographic_content>>
env_vars == <<openai_key, tavily_key>>
search_hist == <<search_calls, cached_rows, returned>>
conc_vars == <<connection_pools, pools, instances, ops, http>>
cache_vars == <<now, db, lookup, client, conc_vars>>
run_vars == <<node, finish_point, wf_vars, previous_enhanced_query, env_vars,
              ws_pc, task, qi_calls, ws_hist, exhausted, ever_bad,
              search_hist>>

NoTasks == [u \in URLs |-> "none"]

\* no client object, no pool, no concurrent call, no validation under way
NoPools == <<>>
NoInstances == <<>>
NoOps == <<>>
NoRequest == [pc |-> "none", url |-> "", requests |-> <<>>, result |-> "none"]
NoConcurrency ==
    /\ connection_pools = 0
    /\ pools = NoPools
    /\ instances = NoInstances
    /\ ops = NoOps
    /\ http = NoRequest

(* ----------------------------- Init ----------------------------------- *)
\* process_query: the initial WorkflowState, in some environment
StartWith(bd) ==
    /\ node = "query_interpreter"
    /\ finish_point = None
    /\ status = "started"
    /\ error = None
    /\ retry_count = 0
    /\ enhanced_query = None
    /\ search_results = {}
    /\ bad_domains = bd
    /\ infographic_content = FALSE
    /\ previous_enhanced_query = None
    /\ openai_key \in BOOLEAN
    /\ tavily_key \in BOOLEAN
    /\ ws_pc = "search"
    /\ task = NoTasks
    /\ qi_calls = 0
    /\ ws_hist = <<>>
    /\ exhausted = FALSE
    /\ ever_bad = Range(bd)
    /\ search_calls = 0
    /\ cached_rows = {}
    /\ returned = {}
    /\ now = Epoch
    /\ db = EmptyDb
    /\ lookup = NoLookup
    /\ client = NoClient

InitWith(bd) == StartWith(bd) /\ NoConcurrency

Init == InitWith(<<>>)

\* graph.invoke on a WorkflowState built by create_workflow_state, whose
\* bad_domains is the caller's
InitInvoke == \E bd \in ListsUpTo(Domains, MaxInitBad) : InitWith(bd)

(* ------------------- orchestrator.py: pure parts ---------------------- *)
\* handle_error marking the failure and clearing the message
handle_error_clears(st, err, msg) ==
    IF st = "insufficient_results"
    THEN [status |-> st, error |-> err]
    ELSE [status |-> "error", error |-> None]

\* handle_error(state, error): the status and error it leaves
handle_error(st, err, msg) ==
    IF st = "insufficient_results"
    THEN [status |-> st, error |-> err]
    ELSE [status |-> "error", error |-> <<"Error in workflow: ", msg>>]

\* check_search_results(state)
check_search_results(st, rc, sr, err) ==
    IF st = "insufficient_results"
    THEN IF rc < MAX_SEARCH_TRIES
         THEN [status |-> st, error |-> err]
         ELSE [status |-> "continue", error |-> err]
    ELSE IF sr = {}
         THEN [status |-> "error", error |-> <<"No search results found">>]
         ELSE [status |-> "continue", error |-> err]

\* route_after_search without the assignment status = "continue"
route_after_search_keeps_status(st, rc) ==
    IF st = "error"
    THEN [next |-> "handle_error", status |-> st, exhausted |-> FALSE]
    ELSE IF st = "insufficient_results"
         THEN IF rc >= MAX_SEARCH_TRIES - 1
              THEN [next |-> "check_results", status |-> st, exhausted |-> TRUE]
              ELSE [next |-> "query_interpreter", status |-> st,
                    exhausted |-> FALSE]
         ELSE [next |-> "check_results", status |-> st, exhausted |-> FALSE]

\* route_after_search comparing with MAX_SEARCH_TRIES instead of one less
route_after_search_off_by_one(st, rc) ==
    IF st = "error"
    THEN [next |-> "handle_error", status |-> st, exhausted |-> FALSE]
    ELSE IF st = "insufficient_results"
         THEN IF rc >= MAX_SEARCH_TRIES
              THEN [next |-> "check_results", status |-> "continue",
                    exhausted |-> TRUE]
              ELSE [next |-> "query_interpreter", status |-> st,
                    exhausted |-> FALSE]
         ELSE [next |-> "check_results", status |-> st, exhausted |-> FALSE]

\* route_after_search(state): the next node, and the status it leaves
route_after_search(st, rc) ==
    IF st = "error"
    THEN [next |-> "handle_error", status |-> st, exhausted |-> FALSE]
    ELSE IF st = "insufficient_results"
         THEN IF rc >= MAX_SEARCH_TRIES - 1
              THEN [next |-> "check_results", status |-> "continue",
                    exhausted |-> TRUE]
              ELSE [next |-> "query_interpreter", status |-> st,
                    exhausted |-> FALSE]
         ELSE [next |-> "check_results", status |-> st, exhausted |-> FALSE]

\* route_after_check(state)
route_after_check(st) ==
    IF st = "error" THEN "handle_error" ELSE "content_editor"

\* the wrapper adding its increment to a count the agent already incremented
wrapped_query_interpreter_prepare_double(st, rc, eq, prev) ==
    LET new_rc == IF st = "insufficient_results" THEN rc + 2 ELSE 0
    IN  [retry_count |-> new_rc,
         previous_enhanced_query |-> IF new_rc > 0 THEN eq ELSE prev,
         enhanced_query |-> IF new_rc > 0 THEN None ELSE eq]

\* wrapped_query_interpreter, before it calls enhance_initial_query: the
\* retry count it will set, and the copy's query fields
wrapped_query_interpreter_prepare(st, rc, eq, prev) ==
    LET new_rc == IF st = "insufficient_results" THEN rc + 1 ELSE 0
    IN  [retry_count |-> new_rc,
         previous_enhanced_query |-> IF new_rc > 0 THEN eq ELSE prev,
         enhanced_query |-> IF new_rc > 0 THEN None ELSE eq]

\* enhance_initial_query, "Handle retry logic": it runs on the wrapper's copy,
\* whose status is still the one the node was entered with
enhance_retry_logic(st, eq, prev) ==
    IF st = "insufficient_results"
    THEN [previous_enhanced_query |-> eq, enhanced_query |-> None]
    ELSE [previous_enhanced_query |-> prev, enhanced_query |-> eq]

\* wrapped_web_searcher, after process_search_results: the domains of the
\* URLs "lost" by the attempt are appended.  state and result are the same
\* dictionary (the agent mutates and returns its argument), so both URL sets
\* are read from the state after the attempt.
RECURSIVE AppendNew(_, _)
AppendNew(bd, ds) ==
    IF ds = {} THEN bd
    ELSE LET d == CHOOSE x \in ds : TRUE
         IN  AppendNew(IF d \in Range(bd) THEN bd ELSE Append(bd, d), ds \ {d})

wrapped_web_searcher_lost(sr_before, sr_after, bd) ==
    IF Cardinality(sr_after) < Cardinality(sr_before)
    THEN LET before_urls == sr_after
             after_urls == sr_after
             removed_urls == before_urls \ after_urls
         IN  AppendNew(bd, {u.netloc : u \in removed_urls})
    ELSE bd

(* ------------------- query_interpreter node --------------------------- *)
OpenAIKeyMissing == "OPENAI_API_KEY not found in environment variables"
CollaboratorErrors == {"collaborator error"}
\* the message of the search provider's rate-limit exception
RateLimitError == "rate limit exceeded"
\* what the search provider can raise
ProviderErrors == CollaboratorErrors \cup {RateLimitError}

QueryInterpreter ==
    /\ node = "query_interpreter"
    /\ LET w == wrapped_query_interpreter_prepare(status, retry_count,
                    enhanced_query, previous_enhanced_query)
           e == enhance_retry_logic(status, w.enhanced_query,
                    w.previous_enhanced_query)
       IN  /\ previous_enhanced_query' = e.previous_enhanced_query
           /\ retry_count' = w.retry_count
           /\ \/ /\ ~openai_key
                 /\ enhanced_query' = e.enhanced_query
                 /\ error' = <<"Error enhancing query: ", OpenAIKeyMissing>>
                 /\ status' = "error"
              \/ /\ openai_key
                 /\ \E m \in CollaboratorErrors :
                        error' = <<"Error enhancing query: ", m>>
                 /\ enhanced_query' = e.enhanced_query
                 /\ status' = "error"
              \/ /\ openai_key
                 /\ \E q \in Queries : enhanced_query' = q
                 /\ status' = "continue"
                 /\ error' = error
    /\ node' = IF status' = "error" THEN "handle_error" ELSE "web_searcher"
    /\ qi_calls' = qi_calls + 1
    /\ UNCHANGED <<finish_point, search_results, bad_domains,
                   infographic_content, env_vars, ws_pc, task, ws_hist,
                   exhausted, ever_bad, search_hist, cache_vars>>


(* --------------- cached_tavily_client.py: search ---------------------- *)
\* search without the exclusion filter on the cached rows
FilterCached_none(rows, exclude_domains) == rows

\* "Filter out excluded domains from cached results"
FilterCached(rows, exclude_domains) ==
    IF exclude_domains # <<>>
    THEN {u \in rows : u.netloc \notin Range(exclude_domains)}
    ELSE rows

\* The exclude_domains list after the live branch.  A non-empty list is put
\* into kwargs as it is and extended in place, and it is the list search_node
\* passed (its bad_domains) and returns; an empty bad_domains is passed as
\* None, and the deny-list goes to a fresh list.
ExtendExcluded(exclude_domains) ==
    IF exclude_domains # <<>> THEN exclude_domains \o DenyList
    ELSE exclude_domains

\* what the provider is told to exclude
ProviderExcluded(exclude_domains) ==
    Range(exclude_domains) \cup Range(DenyList)

\* the rows _get_cached_urls can return: at most LIMIT max_results
CachedRowSets == {r \in SUBSET URLs : Cardinality(r) <= MAX_TAVILY_SEARCH_RESULTS}

\* the answers of a provider that honours exclude_domains and max_results
ProviderAnswers(excluded) ==
    {r \in SUBSET {u \in URLs : u.netloc \notin excluded} :
        Cardinality(r) <= MAX_TAVILY_SEARCH_RESULTS}

(* ----------------------- web_searcher node ---------------------------- *)
\* The end of one web_searcher invocation: process_search_results_async has
\* left status st, error err, bad_domains bd and search_results sr in the
\* state; wrapped_web_searcher post-processes it and route_after_search picks
\* the next node.
FinishWebSearcher(st, err, bd, sr, outcome) ==
    LET r == route_after_search(st, retry_count)
        wbd == wrapped_web_searcher_lost(search_results, sr, bd)
    IN  /\ node' = r.next
        /\ status' = r.status
        /\ exhausted' = (exhausted \/ r.exhausted)
        /\ error' = err
        /\ bad_domains' = wbd
        /\ ever_bad' = ever_bad \cup Range(wbd)
        /\ search_results' = sr
        /\ ws_hist' = Append(ws_hist, outcome)
        /\ ws_pc' = "search"
        /\ task' = NoTasks
        /\ UNCHANGED <<finish_point, retry_count, enhanced_query,
                       infographic_content, previous_enhanced_query, env_vars,
                       qi_calls, cache_vars>>

\* search_node returned enough results: the event loop stores its bad_domains
\* and process_node starts one task per result
StartProcess(results, bd) ==
    /\ ws_pc' = "process"
    /\ task' = [u \in URLs |-> IF u \in results THEN "queued" ELSE "none"]
    /\ bad_domains' = bd
    /\ ever_bad' = ever_bad \cup Range(bd)
    /\ UNCHANGED <<node, finish_point, status, error, retry_count,
                   enhanced_query, search_results, infographic_content,
                   previous_enhanced_query, env_vars, qi_calls, ws_hist,
                   exhausted, cache_vars>>

\* search_node reporting the missing key as too few results
SearchMissingKey_insufficient ==
    /\ node = "web_searcher" /\ ws_pc = "search"
    /\ ~tavily_key
    /\ FinishWebSearcher("insufficient_results", <<"Missing TAVILY_API_KEY">>,
                         <<>>, search_results, "insufficient")
    /\ UNCHANGED search_hist

\* search_node without TAVILY_API_KEY: handle_error("Missing TAVILY_API_KEY")
\* is called without the state, so the event carries bad_domains = []
SearchMissingKey ==
    /\ node = "web_searcher" /\ ws_pc = "search"
    /\ ~tavily_key
    /\ FinishWebSearcher("error", <<"Missing TAVILY_API_KEY">>, <<>>,
                         search_results, "error")
    /\ UNCHANGED search_hist

\* _get_cached_urls raises (storage error): search re-raises, search_node
\* answers an error event that keeps bad_domains
SearchCacheError ==
    /\ node = "web_searcher" /\ ws_pc = "search"
    /\ tavily_key
    /\ \E m \in CollaboratorErrors :
          FinishWebSearcher("error", <<m>>, bad_domains, search_results, "error")
    /\ search_calls' = search_calls + 1
    /\ cached_rows' = {}
    /\ returned' = {}

\* the cached branch: enough cached URLs survive the exclusion filter
SearchCached ==
    /\ node = "web_searcher" /\ ws_pc = "search"
    /\ tavily_key
    /\ \E rows \in CachedRowSets :
          LET cached == FilterCached(rows, bad_domains)
          IN  /\ Cardinality(cached) >= MIN_REQUIRED_RESULTS
              /\ StartProcess(cached, bad_domains)
              /\ cached_rows' = rows
              /\ returned' = cached
    /\ search_calls' = search_calls + 1

\* the live branch: too few cached URLs, the provider is called
SearchLive ==
    /\ node = "web_searcher" /\ ws_pc = "search"
    /\ tavily_key
    /\ \E rows \in CachedRowSets :
          LET cached == FilterCached(rows, bad_domains)
              bd == ExtendExcluded(bad_domains)
          IN  /\ Cardinality(cached) < MIN_REQUIRED_RESULTS
              /\ cached_rows' = rows
              /\ \/ /\ \E m \in ProviderErrors :
                          FinishWebSearcher("error", <<m>>, bd, search_results,
                                            "error")
                    /\ returned' = {}
                 \/ \E answer \in ProviderAnswers(ProviderExcluded(bad_domains)) :
                       /\ returned' = answer
                       /\ IF Cardinality(answer) < MIN_REQUIRED_RESULTS
                          THEN FinishWebSearcher("insufficient_results", error,
                                   bd, search_results, "insufficient")
                          ELSE StartProcess(answer, bd)
    /\ search_calls' = search_calls + 1

(* ---------------- web_searcher.py: process_node ----------------------- *)
\* CachedTavilyClient (cached_tavily_client.py) defines no delete_from_cache
HasDeleteFromCache == FALSE

\* handle_bad_url(url, state, reason): the bad_domains list it leaves.  The
\* delete_from_cache call comes first and its AttributeError is swallowed by
\* the helper's own except clause.
handle_bad_url(url, bd) ==
    IF ~HasDeleteFromCache THEN bd
    ELSE IF url.netloc # "" /\ url.netloc \notin Range(bd)
         THEN Append(bd, url.netloc)
         ELSE bd

InSection == {u \in URLs : task[u] \in {"extract", "classify"}}

ExtractFailures == {"extraction error", "no extract results", "invalid content"}
ClassifyFailures == {"irrelevant content"}

TaskUnchanged ==
    UNCHANGED <<node, finish_point, status, error, retry_count, enhanced_query,
                search_results, infographic_content, previous_enhanced_query,
                env_vars, ws_pc, qi_calls, ws_hist, exhausted, search_hist,
                cache_vars>>

\* a task entering its section without waiting for the semaphore
TaskAcquire_unbounded(u) ==
    /\ node = "web_searcher" /\ ws_pc = "process"
    /\ task[u] = "queued"
    /\ task' = [task EXCEPT ![u] = "extract"]
    /\ UNCHANGED <<bad_domains, ever_bad>>
    /\ TaskUnchanged

\* async with semaphore
TaskAcquire(u) ==
    /\ node = "web_searcher" /\ ws_pc = "process"
    /\ task[u] = "queued"
    /\ Cardinality(InSection) < MAX_CONCURRENT_REQUESTS
    /\ task' = [task EXCEPT ![u] = "extract"]
    /\ UNCHANGED <<bad_domains, ever_bad>>
    /\ TaskUnchanged

\* a failed extraction aborting the attempt with status "error"
TaskExtract_aborts(u) ==
    /\ node = "web_searcher" /\ ws_pc = "process"
    /\ task[u] = "extract"
    /\ \/ /\ task' = [task EXCEPT ![u] = "classify"]
          /\ UNCHANGED <<bad_domains, ever_bad, status>>
       \/ /\ \E reason \in ExtractFailures :
                bad_domains' = handle_bad_url(u, bad_domains)
          /\ ever_bad' = ever_bad \cup Range(bad_domains')
          /\ task' = [v \in URLs |-> IF task[v] = "none" THEN "none" ELSE "bad"]
          /\ status' = "error"
    /\ UNCHANGED <<node, finish_point, error, retry_count, enhanced_query,
                   search_results, infographic_content,
                   previous_enhanced_query, env_vars, ws_pc, qi_calls,
                   ws_hist, exhausted, search_hist, cache_vars>>

\* tavily_client.extract answered and its answer was examined
TaskExtract(u) ==
    /\ node = "web_searcher" /\ ws_pc = "process"
    /\ task[u] = "extract"
    /\ \/ /\ task' = [task EXCEPT ![u] = "classify"]
          /\ UNCHANGED <<bad_domains, ever_bad>>
       \/ /\ \E reason \in ExtractFailures :
                bad_domains' = handle_bad_url(u, bad_domains)
          /\ ever_bad' = ever_bad \cup Range(bad_domains')
          /\ task' = [task EXCEPT ![u] = "bad"]
    /\ TaskUnchanged

\* summarize_content answered
TaskClassify(u) ==
    /\ node = "web_searcher" /\ ws_pc = "process"
    /\ task[u] = "classify"
    /\ \/ /\ task' = [task EXCEPT ![u] = "valid"]
          /\ UNCHANGED <<bad_domains, ever_bad>>
       \/ /\ \E reason \in ClassifyFailures :
                bad_domains' = handle_bad_url(u, bad_domains)
          /\ ever_bad' = ever_bad \cup Range(bad_domains')
          /\ task' = [task EXCEPT ![u] = "bad"]
    /\ TaskUnchanged

\* the event loop leaving the validated results out of the state
Gather_drops_results ==
    /\ node = "web_searcher" /\ ws_pc = "process"
    /\ \A u \in URLs : task[u] \in {"none", "valid", "bad"}
    /\ LET processed_results == {u \in URLs : task[u] = "valid"}
       IN  IF Cardinality(processed_results) < MIN_REQUIRED_RESULTS
           THEN FinishWebSearcher("insufficient_results", error, bad_domains,
                                  search_results, "insufficient")
           ELSE FinishWebSearcher("continue", error, bad_domains,
                                  search_results, "success")
    /\ UNCHANGED search_hist

\* the event loop deciding as soon as one task has finished
Gather_first_completed ==
    /\ node = "web_searcher" /\ ws_pc = "process"
    /\ \E u \in URLs : task[u] \in {"valid", "bad"}
    /\ LET processed_results == {u \in URLs : task[u] = "valid"}
       IN  IF Cardinality(processed_results) < MIN_REQUIRED_RESULTS
           THEN FinishWebSearcher("insufficient_results", error, bad_domains,
                                  search_results, "insufficient")
           ELSE FinishWebSearcher("continue", error, bad_domains,
                                  processed_results, "success")
    /\ UNCHANGED search_hist

\* asyncio.gather returned: process_node's event reaches the event loop
Gather ==
    /\ node = "web_searcher" /\ ws_pc = "process"
    /\ \A u \in URLs : task[u] \in {"none", "valid", "bad"}
    /\ LET processed_results == {u \in URLs : task[u] = "valid"}
       IN  IF Cardinality(processed_results) < MIN_REQUIRED_RESULTS
           THEN FinishWebSearcher("insufficient_results", error, bad_domains,
                                  search_results, "insufficient")
           ELSE FinishWebSearcher("continue", error, bad_domains,
                                  processed_results, "success")
    /\ UNCHANGED search_hist

(* --------------- check_results, content_editor, finish ---------------- *)
CheckResults ==
    /\ node = "check_results"
    /\ LET c == check_search_results(status, retry_count, search_results, error)
       IN  /\ status' = c.status
           /\ error' = c.error
           /\ node' = route_after_check(c.status)
    /\ UNCHANGED <<finish_point, retry_count, enhanced_query, search_results,
                   bad_domains, infographic_content, previous_enhanced_query,
                   env_vars, ws_pc, task, qi_calls, ws_hist, exhausted,
                   ever_bad, search_hist, cache_vars>>

\* sync_edit_content / edit_content
ContentEditor ==
    /\ node = "content_editor"
    /\ IF search_results = {}
       THEN /\ error' = <<"No valid search results to process">>
            /\ status' = "error"
            /\ UNCHANGED infographic_content
       ELSE \/ /\ ~openai_key
               /\ error' = <<"Error editing content: ", OpenAIKeyMissing>>
               /\ status' = "error"
               /\ UNCHANGED infographic_content
            \/ /\ openai_key
               /\ \E m \in CollaboratorErrors :
                      error' = <<"Error editing content: ", m>>
               /\ status' = "error"
               /\ UNCHANGED infographic_content
            \/ /\ openai_key
               /\ infographic_content' = TRUE
               /\ status' = "continue"
               /\ UNCHANGED error
    /\ node' = IF status' = "error" THEN "handle_error" ELSE "end"
    /\ UNCHANGED <<finish_point, retry_count, enhanced_query, search_results,
                   bad_domains, previous_enhanced_query, env_vars, ws_pc, task,
                   qi_calls, ws_hist, exhausted, ever_bad, search_hist,
                   cache_vars>>

\* the handle_error node, a finish point
HandleError ==
    /\ node = "handle_error"
    /\ LET h == handle_error(status, error, "Workflow error")
       IN  status' = h.status /\ error' = h.error
    /\ node' = "finished"
    /\ finish_point' = "handle_error"
    /\ UNCHANGED <<retry_count, enhanced_query, search_results, bad_domains,
                   infographic_content, previous_enhanced_query, env_vars,
                   ws_pc, task, qi_calls, ws_hist, exhausted, ever_bad,
                   search_hist, cache_vars>>

\* the end node, a finish point
End ==
    /\ node = "end"
    /\ node' = "finished"
    /\ finish_point' = "end"
    /\ UNCHANGED <<wf_vars, previous_enhanced_query, env_vars, ws_pc, task,
                   qi_calls, ws_hist, exhausted, ever_bad, search_hist,
                   cache_vars>>

Next ==
    \/ QueryInterpreter
    \/ SearchMissingKey
    \/ SearchCacheError
    \/ SearchCached
    \/ SearchLive
    \/ \E u \in URLs : TaskAcquire(u)
    \/ \E u \in URLs : TaskExtract(u)
    \/ \E u \in URLs : TaskClassify(u)
    \/ Gather
    \/ CheckResults
    \/ ContentEditor
    \/ HandleError
    \/ End

\* one process_query run
Spec == Init /\ [][Next]_vars

\* one graph.invoke run on a caller-built WorkflowState
InvokeSpec == InitInvoke /\ [][Next]_vars

\* The graph engine runs the next node, and the event loop the next ready
\* task, as long as there is one; every collaborator call returns.
LiveSpec == Init /\ [][Next]_vars /\ WF_vars(Next)


\* process_node handed a SearchState whose results are every URL of some
\* domains, after one reformulation and one search call of a run
ProcessInit ==
    /\ node = "web_searcher"
    /\ finish_point = None
    /\ status = "continue"
    /\ error = None
    /\ retry_count = 0
    /\ enhanced_query = <<"q", 1>>
    /\ search_results = {}
    /\ bad_domains = <<>>
    /\ infographic_content = FALSE
    /\ previous_enhanced_query = None
    /\ openai_key = TRUE
    /\ tavily_key = TRUE
    /\ ws_pc = "process"
    /\ \E D \in SUBSET Domains \ {{}} :
          /\ returned = {u \in URLs : u.netloc \in D}
          /\ task = [u \in URLs |-> IF u.netloc \in D THEN "queued" ELSE "none"]
    /\ qi_calls = 1
    /\ ws_hist = <<>>
    /\ exhausted = FALSE
    /\ ever_bad = {}
    /\ search_calls = 1
    /\ cached_rows = {}
    /\ now = Epoch
    /\ db = EmptyDb
    /\ lookup = NoLookup
    /\ client = NoClient
    /\ NoConcurrency

ProcessNext ==
    \/ \E u \in URLs : TaskAcquire(u)
    \/ \E u \in URLs : TaskExtract(u)
    \/ \E u \in URLs : TaskClassify(u)
    \/ Gather

\* one process_node invocation, up to the event it emits
ProcessSpec == ProcessInit /\ [][ProcessNext]_vars

(* ------------------- the cache lookups on their own ------------------- *)
\* the minutes of validity a row has left at Epoch
ValidFor == 0..MaxTicks
\* the URLs that cached rows are about
CacheUrls == {u \in URLs : u.path = 1}

\* the embedding and the validity left of a row that has an embedding: any
\* embedding in a row that outlives the clock, any validity in a row of the
\* query itself
Shapes == {<<e, MaxTicks>> : e \in Embeddings}
             \cup {<<QueryEmbedding, v>> : v \in ValidFor}

\* rows of url_cache, written by update_url_cache
UrlRows ==
    {[url |-> u, embedding |-> sh[1],
      created_at |->
          (Epoch + sh[2]) - DEFAULT_EXPIRES_AFTER_DAYS * MinutesPerDay,
      expires_after_days |-> DEFAULT_EXPIRES_AFTER_DAYS] :
        u \in CacheUrls, sh \in Shapes}

\* rows of content_cache, written by update_content_cache
ContentRows ==
    {[url |-> u,
      created_at |-> (Epoch + v) - DEFAULT_EXPIRES_AFTER_DAYS * MinutesPerDay,
      expires_after_days |-> DEFAULT_EXPIRES_AFTER_DAYS] :
        u \in CacheUrls, v \in ValidFor}

\* rows of tavily_search_cache, written by _cache_search_result
SearchRows ==
    {[embedding |-> sh[1], search_depth |-> "basic",
      max_results |-> m, time_range |-> tr,
      creation_date |->
          (Epoch + sh[2])
             - expires_after_minutes_for(tr, CACHE_EXPIRY_MINUTES),
      expires_after_minutes |->
          expires_after_minutes_for(tr, CACHE_EXPIRY_MINUTES)] :
        sh \in Shapes, tr \in {NULL},
        m \in {MAX_TAVILY_SEARCH_RESULTS, MAX_TAVILY_SEARCH_RESULTS + 1}}

\* rows of search_cache_duration, written by _get_search_cache_duration
DurationRows ==
    {[embedding |-> sh[1], time_range |-> NULL,
      cache_duration_minutes |-> MinutesPerDay,
      creation_date |-> (Epoch + sh[2]) - CACHE_EXPIRY_MINUTES,
      expires_after_minutes |-> CACHE_EXPIRY_MINUTES] : sh \in Shapes}

\* rows of tavily_extract_cache, written by _extract_internal
ExtractRows ==
    {[url |-> u, creation_date |-> (Epoch + v) - CACHE_EXPIRY_MINUTES,
      expires_after_minutes |-> CACHE_EXPIRY_MINUTES] :
        u \in CacheUrls, v \in ValidFor}

RowsOf(t) ==
    CASE t = "url_cache" -> UrlRows
      [] t = "content_cache" -> ContentRows
      [] t = "tavily_search_cache" -> SearchRows
      [] t = "search_cache_duration" -> DurationRows
      [] t = "tavily_extract_cache" -> ExtractRows

\* the conflict target of the table's upsert: rows agree on it only if equal
SameKey(t, r, s) ==
    CASE t = "url_cache" -> r.url = s.url /\ r.embedding = s.embedding
      [] t = "content_cache" -> r.url = s.url
      [] t = "tavily_search_cache" ->
            r.embedding = s.embedding /\ r.search_depth = s.search_depth
               /\ r.time_range = s.time_range
      [] t = "search_cache_duration" -> r.embedding = s.embedding
      [] t = "tavily_extract_cache" -> r.url = s.url

RECURSIVE SetsUpTo(_, _)
SetsUpTo(S, n) ==
    IF n = 0 THEN {{}}
    ELSE LET P == SetsUpTo(S, n - 1)
         IN  P \cup {T \cup {x} : T \in P, x \in S}

\* the tables a table can hold: at most LookupRows rows, one per key
TablesOf(t) ==
    {rows \in SetsUpTo(RowsOf(t), LookupRows) :
        \A r, s \in rows : SameKey(t, r, s) => r = s}

\* a client facing a store in which one table holds rows; no run under way
LookupInit ==
    /\ node = "query_interpreter"
    /\ finish_point = None
    /\ status = "started"
    /\ error = None
    /\ retry_count = 0
    /\ enhanced_query = None
    /\ search_results = {}
    /\ bad_domains = <<>>
    /\ infographic_content = FALSE
    /\ previous_enhanced_query = None
    /\ openai_key = TRUE
    /\ tavily_key = TRUE
    /\ ws_pc = "search"
    /\ task = NoTasks
    /\ qi_calls = 0
    /\ ws_hist = <<>>
    /\ exhausted = FALSE
    /\ ever_bad = {}
    /\ search_calls = 0
    /\ cached_rows = {}
    /\ returned = {}
    /\ now = Epoch
    /\ \E t \in TableNames : \E rows \in TablesOf(t) :
          db = [EmptyDb EXCEPT ![t] = rows]
    /\ lookup = NoLookup
    /\ client = NoClient
    /\ NoConcurrency

LookupUnchanged == UNCHANGED <<run_vars, db, client, conc_vars>>

\* the storage clock advances by a minute
Tick ==
    /\ now < Epoch + MaxTicks
    /\ now' = now + 1
    /\ UNCHANGED <<run_vars, db, lookup, client, conc_vars>>

\* fetchone() after LIMIT 1: no row, or one of the first-ranked rows
FetchOne(first) == IF first = {} THEN {{}} ELSE {{r} : r \in first}

\* v1 CachedTavilyClient._get_cached_urls
LookupUrlCache ==
    /\ \E max_results \in 1..MAX_TAVILY_SEARCH_RESULTS :
       \E exclude_domains \in ListsUpTo(Domains, 1) :
          lookup' = [table |-> "url_cache", at |-> now,
                     args |-> [q |-> QueryEmbedding,
                               max_results |-> max_results,
                               exclude_domains |-> exclude_domains],
                     found |-> get_cached_urls(db["url_cache"],
                                   QueryEmbedding, now, max_results)]
    /\ UNCHANGED now
    /\ LookupUnchanged

\* v1 CachedTavilyClient.extract: its content_cache query
LookupContentCache ==
    /\ \E urls \in (SUBSET CacheUrls) \ {{}} :
          lookup' = [table |-> "content_cache", at |-> now,
                     args |-> [urls |-> urls],
                     found |-> cached_contents(db["content_cache"], urls, now)]
    /\ UNCHANGED now
    /\ LookupUnchanged

\* v2 CachedTavilyClient._search_internal: its tavily_search_cache query
LookupSearchCache ==
    /\ \E search_depth \in {"basic", "advanced"} :
       \E max_results \in {MAX_TAVILY_SEARCH_RESULTS} :
       \E time_range \in {NULL, "day"} :
       \E f \in FetchOne(search_cache_lookup(db["tavily_search_cache"],
                              QueryEmbedding, search_depth, max_results,
                              time_range, now)) :
          lookup' = [table |-> "tavily_search_cache", at |-> now,
                     args |-> [q |-> QueryEmbedding,
                               search_depth |-> search_depth,
                               max_results |-> max_results,
                               time_range |-> time_range],
                     found |-> f]
    /\ UNCHANGED now
    /\ LookupUnchanged

\* v2 CachedTavilyClient._get_search_cache_duration.check_cache
LookupDurationCache ==
    /\ \E f \in FetchOne(check_cache(db["search_cache_duration"],
                              QueryEmbedding, now)) :
          lookup' = [table |-> "search_cache_duration", at |-> now,
                     args |-> [q |-> QueryEmbedding], found |-> f]
    /\ UNCHANGED now
    /\ LookupUnchanged

\* v2 CachedTavilyClient._extract_internal: its tavily_extract_cache query
LookupExtractCache ==
    /\ \E url \in CacheUrls :
       \E f \in FetchOne(extract_cache_lookup(db["tavily_extract_cache"],
                              url, now)) :
          lookup' = [table |-> "tavily_extract_cache", at |-> now,
                     args |-> [url |-> url], found |-> f]
    /\ UNCHANGED now
    /\ LookupUnchanged

LookupNext ==
    \/ Tick
    \/ LookupUrlCache
    \/ LookupContentCache
    \/ LookupSearchCache
    \/ LookupDurationCache
    \/ LookupExtractCache

\* cache lookups against a store that nothing writes to, as time passes
LookupSpec == LookupInit /\ [][LookupNext]_vars

(* ------ cached_tavily_client_v2.py: search and the TTL decisions ------- *)
\* most calls of the cache clients in one behaviour
MaxCalls == 2

\* "Never output a number higher than 131400": the limit the prompt asks
\* the reasoning model to keep
MAX_CACHE_MINUTES == 131400

\* the queries that are searched for
SearchQueries == {"q0", "q1"}
\* embedding_client.get_embedding: the same text always has the same
\* embedding; the two queries are worded alike
get_embedding(query) == IF query = "q0" THEN QueryEmbedding ELSE NearEmbedding

\* time_range values the checks of the code let through unchanged
TimeRanges == {"day", "week", "month", "year"}
\* what with_structured_output(SearchParameters).invoke can answer: the
\* TypedDict is not validated, so any time_range and any integer
ModelOutputs ==
    {[time_range |-> NULL, cache_duration_minutes |-> 60],
     [time_range |-> "day", cache_duration_minutes |-> 60],
     [time_range |-> "week", cache_duration_minutes |-> 60],
     [time_range |-> "decade", cache_duration_minutes |-> 60],
     [time_range |-> "", cache_duration_minutes |-> 60],
     [time_range |-> NULL, cache_duration_minutes |-> MAX_CACHE_MINUTES + 1],
     [time_range |-> NULL, cache_duration_minutes |-> 0 - 1]}

\* "if result['time_range']:": the values Python takes as true
Truthy(time_range) == time_range \notin {NULL, ""}

\* _get_search_cache_duration, lines 751-753
normalise(result) ==
    IF Truthy(result.time_range) /\ result.time_range \notin TimeRanges
    THEN [result EXCEPT !.time_range = NULL]
    ELSE result

\* cache_result: INSERT INTO search_cache_duration ... ON CONFLICT (query)
\* DO UPDATE; datetime.now() is read off the clock the storage reads
cache_result(rows, query, result, t) ==
    {r \in rows : r.query # query}
       \cup {[query |-> query, embedding |-> get_embedding(query),
              time_range |-> result.time_range,
              cache_duration_minutes |-> result.cache_duration_minutes,
              creation_date |-> t,
              expires_after_minutes |-> CACHE_EXPIRY_MINUTES]}

\* a policy that answers the reasoning model's decision and stores nothing
get_search_cache_duration_forgets(rows, query, t, f, out) ==
    IF f # {}
    THEN LET r == CHOOSE r \in f : TRUE
         IN  [cached |-> f, llm |-> {},
              decision |-> [time_range |-> r.time_range,
                            cache_duration_minutes |->
                                r.cache_duration_minutes],
              rows |-> rows]
    ELSE [cached |-> {}, llm |-> {out}, decision |-> normalise(out),
          rows |-> rows]

\* a policy that asks the reasoning model again although a decision is cached
get_search_cache_duration_asks(rows, query, t, f, out) ==
    [cached |-> f, llm |-> {out}, decision |-> normalise(out),
     rows |-> cache_result(rows, query, normalise(out), t)]

\* _get_search_cache_duration(query) at instant t: f is what fetchone() gave
\* check_cache, out what the reasoning model answers if it is asked.  Its
\* answer: the cached row used, the model output used, the decision
\* returned, the rows of search_cache_duration afterwards.
get_search_cache_duration(rows, query, t, f, out) ==
    IF f # {}
    THEN LET r == CHOOSE r \in f : TRUE
         IN  [cached |-> f, llm |-> {},
              decision |-> [time_range |-> r.time_range,
                            cache_duration_minutes |->
                                r.cache_duration_minutes],
              rows |-> rows]
    ELSE LET result == normalise(out)
         IN  [cached |-> {}, llm |-> {out}, decision |-> result,
              rows |-> cache_result(rows, query, result, t)]

\* what tavily_client.search does: a response, or an exception
ProviderReplies ==
    {[ok |-> TRUE, results |-> <<x>>, message |-> ""] :
        x \in {"result 1", "result 2"}}
       \cup {[ok |-> FALSE, results |-> <<>>, message |-> m] :
                m \in CollaboratorErrors}

\* ON CONFLICT (query, search_depth, time_range): the row r is the one a
\* write of the call with that time_range replaces (the conflict target is
\* taken as the statement names it, a NULL time_range included)
Conflicts(r, call, time_range) ==
    /\ r.query = call.query
    /\ r.search_depth = call.search_depth
    /\ r.time_range = time_range

\* _cache_search_result: INSERT INTO tavily_search_cache ... ON CONFLICT
\* (query, search_depth, time_range) DO UPDATE; call holds query,
\* search_depth and max_results, decision time_range and cache_duration
cache_search_result(rows, call, response, decision, t) ==
    {r \in rows : ~Conflicts(r, call, decision.time_range)}
       \cup {[query |-> call.query, embedding |-> get_embedding(call.query),
              search_depth |-> call.search_depth,
              max_results |-> call.max_results,
              time_range |-> decision.time_range, api_response |-> response,
              creation_date |-> t,
              expires_after_minutes |->
                  expires_after_minutes_for(decision.time_range,
                      decision.cache_duration_minutes)]}

\* the message of the ValueError of _search_internal, as its pieces
ApiErrorMessage(search_depth, message) ==
    <<"Error calling Tavily API for ", search_depth, " search: ", message>>

\* a search that keeps the row it wrote although it raises
search_internal_keeps(rows, call, decision, t, g, reply) ==
    IF g # {}
    THEN LET r == CHOOSE r \in g : TRUE
         IN  [found |-> g, provider |-> {}, raised |-> FALSE,
              value |-> r.api_response.results, rows |-> rows]
    ELSE [found |-> {}, provider |-> {reply}, raised |-> ~reply.ok,
          value |-> IF reply.ok THEN reply.results
                    ELSE ApiErrorMessage(call.search_depth, reply.message),
          rows |-> cache_search_result(rows, call,
                       [results |-> reply.results], decision, t)]

\* a search that asks the provider although the cache answered, and stores
\* the fresh response
search_internal_refreshes(rows, call, decision, t, g, reply) ==
    IF reply.ok
    THEN [found |-> g, provider |-> {reply}, raised |-> FALSE,
          value |-> reply.results,
          rows |-> cache_search_result(rows, call,
                       [results |-> reply.results], decision, t)]
    ELSE [found |-> g, provider |-> {reply}, raised |-> TRUE,
          value |-> ApiErrorMessage(call.search_depth, reply.message),
          rows |-> rows]

\* _search_internal after the decision, inside _execute_with_connection: g
\* is what fetchone() gave the cache query, reply what the provider does if
\* it is called.  Its answer: the cached row used, the provider reply used,
\* whether it raised, the results returned or the message raised, the rows
\* of tavily_search_cache after the commit or the rollback.
search_internal(rows, call, decision, t, g, reply) ==
    IF g # {}
    THEN LET r == CHOOSE r \in g : TRUE
         IN  [found |-> g, provider |-> {}, raised |-> FALSE,
              value |-> r.api_response.results, rows |-> rows]
    ELSE IF reply.ok
    THEN [found |-> {}, provider |-> {reply}, raised |-> FALSE,
          value |-> reply.results,
          rows |-> cache_search_result(rows, call,
                       [results |-> reply.results], decision, t)]
    ELSE [found |-> {}, provider |-> {reply}, raised |-> TRUE,
          value |-> ApiErrorMessage(call.search_depth, reply.message),
          rows |-> rows]

\* the reasoning model answers only if asked, the provider only if called
ModelAnswers(f) == IF f = {} THEN ModelOutputs ELSE {NoDecision}
ProviderAnswer(g) ==
    IF g = {} THEN ProviderReplies
    ELSE {[ok |-> TRUE, results |-> <<>>, message |-> ""]}

\* a client on an empty store, no run under way
ClientInit == Init /\ openai_key /\ tavily_key

ClientUnchanged == UNCHANGED <<run_vars, lookup, conc_vars>>

\* time passes, once, until the decisions stored so far have expired
Wait ==
    /\ now < Epoch + CACHE_EXPIRY_MINUTES
    /\ now' = now + CACHE_EXPIRY_MINUTES
    /\ UNCHANGED <<run_vars, db, lookup, client, conc_vars>>

\* CachedTavilyClient._get_search_cache_duration(query)
GetSearchCacheDuration ==
    /\ client.calls < MaxCalls
    /\ \E query \in SearchQueries :
       \E f \in FetchOne(check_cache(db["search_cache_duration"],
                                     get_embedding(query), now)) :
       \E out \in ModelAnswers(f) :
          LET p == get_search_cache_duration(db["search_cache_duration"],
                                             query, now, f, out)
          IN  /\ db' = [db EXCEPT !["search_cache_duration"] = p.rows]
              /\ client' =
                   [calls |-> client.calls + 1,
                    llm_calls |-> client.llm_calls + Cardinality(p.llm),
                    api_calls |-> client.api_calls,
                    last |-> [NoCall EXCEPT
                                !.op = "get_search_cache_duration",
                                !.at = now,
                                !.args = [query |-> query],
                                !.cached = p.cached,
                                !.llm = p.llm,
                                !.decision = p.decision,
                                !.value = <<>>]]
    /\ UNCHANGED now
    /\ ClientUnchanged

\* CachedTavilyClient.search(query, max_results, search_depth)
Search ==
    /\ client.calls < MaxCalls
    /\ \E query \in SearchQueries :
       \E search_depth \in {"basic", "advanced"} :
       \E max_results \in {MAX_TAVILY_SEARCH_RESULTS} :
       \E f \in FetchOne(check_cache(db["search_cache_duration"],
                                     get_embedding(query), now)) :
       \E out \in ModelAnswers(f) :
          LET p == get_search_cache_duration(db["search_cache_duration"],
                                             query, now, f, out)
          IN  \E g \in FetchOne(search_cache_lookup(
                                   db["tavily_search_cache"],
                                   get_embedding(query), search_depth,
                                   max_results, p.decision.time_range, now)) :
              \E reply \in ProviderAnswer(g) :
                 LET s == search_internal(db["tavily_search_cache"],
                                          [query |-> query,
                                           search_depth |-> search_depth,
                                           max_results |-> max_results],
                                          p.decision, now, g, reply)
                 IN  /\ db' = [db EXCEPT
                                 !["search_cache_duration"] = p.rows,
                                 !["tavily_search_cache"] = s.rows]
                     /\ client' =
                          [calls |-> client.calls + 1,
                           llm_calls |->
                               client.llm_calls + Cardinality(p.llm),
                           api_calls |->
                               client.api_calls + Cardinality(s.provider),
                           last |-> [NoCall EXCEPT
                                       !.op = "search",
                                       !.at = now,
                                       !.args =
                                          [query |-> query,
                                           search_depth |-> search_depth,
                                           max_results |-> max_results],
                                       !.cached = p.cached,
                                       !.llm = p.llm,
                                       !.decision = p.decision,
                                       !.found = s.found,
                                       !.provider = s.provider,
                                       !.raised = s.raised,
                                       !.value = s.value]]
    /\ UNCHANGED now
    /\ ClientUnchanged

ClientNext ==
    \/ Wait
    \/ GetSearchCacheDuration
    \/ Search

\* calls of the v2 client, one after the other, on a store that starts empty
ClientSpec == ClientInit /\ [][ClientNext]_vars

(* ------------- the writes of the cache clients on their own ----------- *)
\* v1 update_url_cache: INSERT INTO url_cache ... ON CONFLICT DO NOTHING.
\* The constraints of url_cache are not in the source: if one covers the
\* entry of this query and url (conflict) nothing is written, else the row
\* is added.
update_url_cache(rows, query, url, expires_after_days, t, conflict) ==
    IF conflict /\ \E r \in rows : r.query = query /\ r.url = url
    THEN rows
    ELSE rows \cup {[query |-> query, url |-> url,
                     embedding |-> get_embedding(query),
                     expires_after_days |-> expires_after_days,
                     created_at |-> t, last_updated |-> t]}

\* v1 update_content_cache: INSERT INTO content_cache ... ON CONFLICT (url)
\* DO UPDATE SET raw_content, expires_after_days, last_updated
update_content_cache(rows, url, raw_content, expires_after_days, t) ==
    IF \E r \in rows : r.url = url
    THEN {IF r.url = url
          THEN [r EXCEPT !.raw_content = raw_content,
                         !.expires_after_days = expires_after_days,
                         !.last_updated = t]
          ELSE r : r \in rows}
    ELSE rows \cup {[url |-> url, raw_content |-> raw_content,
                     expires_after_days |-> expires_after_days,
                     created_at |-> t, last_updated |-> t]}

\* the pages that are stored
RawContents == {"content 1", "content 2"}

\* the record of a write: the operation, its arguments, whether a row of its
\* key was there before
Written(op, args, existed) ==
    [calls |-> client.calls + 1, llm_calls |-> client.llm_calls,
     api_calls |-> client.api_calls,
     last |-> [NoCall EXCEPT !.op = op, !.at = now, !.args = args,
                             !.existed = existed]]

\* v1 CachedTavilyClient.update_url_cache(query, enhanced_query, url, ...)
UpdateUrlCache ==
    /\ client.calls < MaxCalls
    /\ \E query \in SearchQueries : \E url \in CacheUrls :
       \E conflict \in BOOLEAN :
          /\ db' = [db EXCEPT !["url_cache"] =
                       update_url_cache(@, query, url,
                           DEFAULT_EXPIRES_AFTER_DAYS, now, conflict)]
          /\ client' = Written("update_url_cache",
                           [query |-> query, url |-> url],
                           \E r \in db["url_cache"] :
                              r.query = query /\ r.url = url)
    /\ UNCHANGED now
    /\ ClientUnchanged

\* v1 CachedTavilyClient.update_content_cache(url, raw_content)
UpdateContentCache ==
    /\ client.calls < MaxCalls
    /\ \E url \in CacheUrls : \E raw_content \in RawContents :
          /\ db' = [db EXCEPT !["content_cache"] =
                       update_content_cache(@, url, raw_content,
                           DEFAULT_EXPIRES_AFTER_DAYS, now)]
          /\ client' = Written("update_content_cache",
                           [url |-> url, raw_content |-> raw_content],
                           \E r \in db["content_cache"] : r.url = url)
    /\ UNCHANGED now
    /\ ClientUnchanged

\* v2 CachedTavilyClient._cache_search_result(query, response, ...)
CacheSearchResult ==
    /\ client.calls < MaxCalls
    /\ \E query \in SearchQueries : \E time_range \in {NULL, "day"} :
       \E reply \in {x \in ProviderReplies : x.ok} :
          LET call == [query |-> query, search_depth |-> "basic",
                       max_results |-> MAX_TAVILY_SEARCH_RESULTS]
              decision == [time_range |-> time_range,
                           cache_duration_minutes |-> MinutesPerDay]
          IN  /\ db' = [db EXCEPT !["tavily_search_cache"] =
                           cache_search_result(@, call,
                               [results |-> reply.results], decision, now)]
              /\ client' = Written("cache_search_result",
                               [query |-> query, search_depth |-> "basic",
                                time_range |-> time_range,
                                response |-> [results |-> reply.results]],
                               \E r \in db["tavily_search_cache"] :
                                  Conflicts(r, call, time_range))
    /\ UNCHANGED now
    /\ ClientUnchanged

StoreNext ==
    \/ Wait
    \/ UpdateUrlCache
    \/ UpdateContentCache
    \/ CacheSearchResult
    \/ LookupUrlCache
    \/ LookupContentCache
    \/ LookupSearchCache

\* writes to the caches and lookups, on a store that starts empty
StoreSpec == ClientInit /\ [][StoreNext]_vars

(* ------------- the psycopg2 pools under concurrent calls -------------- *)
\* the calls under way at once, one per thread
NumThreads == 2
Threads == 1..NumThreads
\* max_connections of the pools: as many as there are concurrent calls
max_connections == NumThreads

\* the classes whose _connection_pools holds a ThreadedConnectionPool
PoolClasses == <<"tavily", "embedding">>
\* the pool of a class, among the pools created
PoolOf(ps, class) == CHOOSE i \in DOMAIN ps : ps[i].class = class

\* the steps of a call that matter to the pool, in program order
StepGetconn(class) == [do |-> "getconn", pool |-> class, to |-> 0, who |-> ""]
StepPutconn(class) == [do |-> "putconn", pool |-> class, to |-> 0, who |-> ""]
StepHit(to) == [do |-> "branch", pool |-> "", to |-> to, who |-> ""]
StepCall(who) == [do |-> "call", pool |-> "", to |-> 0, who |-> who]

\* CachedEmbeddingClient.get_embedding: _execute_with_connection around
\* _get_embedding_internal, which asks the API when the text is not cached;
\* at is the position of its first step
get_embedding_steps(at) ==
    <<StepGetconn("embedding"), StepHit(at + 3),
      StepCall("embedding provider"), StepPutconn("embedding")>>

\* v2 CachedTavilyClient._get_search_cache_duration: check_cache in a
\* connection of its own, the reasoning model, cache_result in another
get_search_cache_duration_steps(at) ==
    <<StepGetconn("tavily"), StepPutconn("tavily"), StepHit(at + 6),
      StepCall("reasoning model"), StepGetconn("tavily"), StepPutconn("tavily")>>

\* the calls of the clients
Program(op) ==
    CASE op = "search" ->
            \* search: _execute_with_connection around _search_internal
            <<StepGetconn("tavily")>> \o get_embedding_steps(2)
               \o get_search_cache_duration_steps(6)
               \o <<StepHit(14), StepCall("search provider"), StepPutconn("tavily")>>
      [] op = "extract" ->
            \* v2 extract: _execute_with_connection around _extract_internal
            <<StepGetconn("tavily"), StepHit(4),
              StepCall("extract provider"), StepPutconn("tavily")>>
      [] op = "nearest_neighbors" ->
            \* CachedEmbeddingClient.nearest_neighbors
            <<StepGetconn("embedding")>> \o get_embedding_steps(2)
               \o <<StepPutconn("embedding")>>

Operations == {"search", "extract", "nearest_neighbors"}

\* a thread that has not called yet; transaction is what the last
\* _execute_with_connection to end did with its transaction
NoOp ==
    [op |-> "none", pc |-> 0, held |-> <<>>, waiting |-> "",
     outcome |-> "none", transaction |-> ""]

\* how many connections of the class's pool the stack of a call holds
Holds(held, class) ==
    Cardinality({k \in DOMAIN held : held[k] = class})

\* ThreadedConnectionPool.getconn: one more connection is in use
getconn(ps, class) ==
    [ps EXCEPT ![PoolOf(ps, class)].used = @ + 1]

\* the finally clause that forgets putconn
putconn_never(ps, held) == ps

\* the finally clauses of the nested _execute_with_connection calls, as an
\* exception passes through them: every connection held goes back
putconn(ps, held) ==
    [i \in DOMAIN ps |->
        [ps[i] EXCEPT !.used = @ - Holds(held, ps[i].class)]]

\* an exception leaves the call: each _execute_with_connection on the stack
\* rolls back, returns its connection and re-raises
Raise(t, exception) ==
    /\ ops' = [ops EXCEPT ![t].held = <<>>,
                          ![t].waiting = "",
                          ![t].outcome = exception,
                          ![t].transaction = "rollback"]
    /\ pools' = putconn(pools, ops[t].held)

\* the step the thread is at
StepOf(t) == Program(ops[t].op)[ops[t].pc]
InProgress(t) ==
    /\ ops[t].op # "none"
    /\ ops[t].outcome = "none"
    /\ ops[t].waiting = ""

PoolUnchanged ==
    UNCHANGED <<run_vars, now, db, lookup, client, connection_pools,
                instances, http>>

\* a process in which each class has created its pool, and threads that
\* have not called yet
PoolInit ==
    /\ StartWith(<<>>)
    /\ openai_key /\ tavily_key
    /\ connection_pools = 0
    /\ pools = [i \in DOMAIN PoolClasses |->
                  [class |-> PoolClasses[i], closed |-> FALSE, used |-> 0]]
    /\ instances = NoInstances
    /\ ops = [t \in Threads |-> NoOp]
    /\ http = NoRequest

\* a thread calls a method of a client
Call(t) ==
    /\ ops[t].op = "none"
    /\ \E op \in Operations : ops' = [ops EXCEPT ![t].op = op, ![t].pc = 1]
    /\ UNCHANGED pools
    /\ PoolUnchanged

\* _execute_with_connection: conn = self._db_pool.getconn(), which raises
\* PoolError when max_connections connections are in use
Getconn(t) ==
    /\ InProgress(t)
    /\ StepOf(t).do = "getconn"
    /\ IF pools[PoolOf(pools, StepOf(t).pool)].used < max_connections
       THEN /\ pools' = getconn(pools, StepOf(t).pool)
            /\ ops' = [ops EXCEPT ![t].held = Append(@, StepOf(t).pool),
                                  ![t].pc = @ + 1]
       ELSE Raise(t, "PoolError")
    /\ PoolUnchanged

\* the operation of the innermost _execute_with_connection returned:
\* conn.commit(), then putconn in the finally clause
Putconn(t) ==
    /\ InProgress(t)
    /\ StepOf(t).do = "putconn"
    /\ pools' = putconn(pools, <<StepOf(t).pool>>)
    /\ ops' = [ops EXCEPT
                 ![t].held = SubSeq(@, 1, Len(@) - 1),
                 ![t].transaction = "commit",
                 ![t].pc = @ + 1,
                 ![t].outcome = IF ops[t].pc = Len(Program(ops[t].op))
                                THEN "returned" ELSE "none"]
    /\ PoolUnchanged

\* conn.commit() raises
CommitFails(t) ==
    /\ InProgress(t)
    /\ StepOf(t).do = "putconn"
    /\ Raise(t, "raised")
    /\ PoolUnchanged

\* the cache query of the call: a row (the steps up to `to` are skipped) or
\* none
CacheQuery(t) ==
    /\ InProgress(t)
    /\ StepOf(t).do = "branch"
    /\ \E hit \in BOOLEAN :
          ops' = [ops EXCEPT ![t].pc = IF hit THEN StepOf(t).to ELSE @ + 1]
    /\ UNCHANGED pools
    /\ PoolUnchanged

\* the call asks a collaborator and waits for its answer
CallCollaborator(t) ==
    /\ InProgress(t)
    /\ StepOf(t).do = "call"
    /\ ops' = [ops EXCEPT ![t].waiting = StepOf(t).who]
    /\ UNCHANGED pools
    /\ PoolUnchanged

CollaboratorReturns(t) ==
    /\ ops[t].waiting # ""
    /\ ops' = [ops EXCEPT ![t].waiting = "", ![t].pc = @ + 1]
    /\ UNCHANGED pools
    /\ PoolUnchanged

CollaboratorRaises(t) ==
    /\ ops[t].waiting # ""
    /\ Raise(t, "raised")
    /\ PoolUnchanged

PoolNext ==
    \/ \E t \in Threads : Call(t)
    \/ \E t \in Threads : Getconn(t)
    \/ \E t \in Threads : Putconn(t)
    \/ \E t \in Threads : CommitFails(t)
    \/ \E t \in Threads : CacheQuery(t)
    \/ \E t \in Threads : CallCollaborator(t)
    \/ \E t \in Threads : CollaboratorReturns(t)
    \/ \E t \in Threads : CollaboratorRaises(t)

\* concurrent calls of the psycopg2-backed clients on pools nobody closes
PoolSpec == PoolInit /\ [][PoolNext]_vars

(* ---------- construction and close() of the psycopg2 clients ---------- *)
\* the client objects of one class in the process
NumInstances == 2
Instances == 1..NumInstances
\* how often close() is called on one object
MaxCloses == 2

\* an object that is not constructed yet; last is the outcome of its last
\* cache operation, closed_pool the pool its last close() closed (0: none)
NoInstance ==
    [state |-> "none", db_pool |-> 0, closes |-> 0, closed_pool |-> 0,
     last |-> "none"]

CloseUnchanged == UNCHANGED <<run_vars, now, db, lookup, client, ops, http>>

\* a process in which no client has been constructed
CloseInit ==
    /\ StartWith(<<>>)
    /\ openai_key /\ tavily_key
    /\ connection_pools = 0
    /\ pools = NoPools
    /\ instances = [i \in Instances |-> NoInstance]
    /\ ops = NoOps
    /\ http = NoRequest

\* CachedTavilyClient.__init__: under _instance_lock the pool of the process
\* is created if _connection_pools has none; self._db_pool refers to it
Construct(i) ==
    /\ instances[i].state = "none"
    /\ IF connection_pools = 0
       THEN /\ pools' = Append(pools, [class |-> "tavily", closed |-> FALSE,
                                       used |-> 0])
            /\ connection_pools' = Len(pools) + 1
       ELSE UNCHANGED <<pools, connection_pools>>
    /\ instances' = [instances EXCEPT ![i].state = "live",
                                      ![i].db_pool = connection_pools']
    /\ CloseUnchanged

\* CachedTavilyClient.close: under _instance_lock, if _connection_pools has
\* a pool for the process: closeall() on it and del the entry
Close(i) ==
    /\ instances[i].state \in {"live", "closed"}
    /\ instances[i].closes < MaxCloses
    /\ IF connection_pools # 0
       THEN /\ pools' = [pools EXCEPT ![connection_pools].closed = TRUE]
            /\ connection_pools' = 0
       ELSE UNCHANGED <<pools, connection_pools>>
    /\ instances' = [instances EXCEPT ![i].state = "closed",
                                      ![i].closes = @ + 1,
                                      ![i].closed_pool = connection_pools]
    /\ CloseUnchanged

\* a cache operation of an object that was not closed, from its
\* _execute_with_connection: self._db_pool.getconn() raises PoolError on a
\* closed pool; else the operation runs and the connection goes back
Execute(i) ==
    /\ instances[i].state = "live"
    /\ instances' = [instances EXCEPT ![i].last =
                        IF pools[instances[i].db_pool].closed
                        THEN "PoolError" ELSE "returned"]
    /\ UNCHANGED <<pools, connection_pools>>
    /\ CloseUnchanged

CloseNext ==
    \/ \E i \in Instances : Construct(i)
    \/ \E i \in Instances : Close(i)
    \/ \E i \in Instances : Execute(i)

\* client objects of one class constructed, used and closed in one process
CloseSpec == CloseInit /\ [][CloseNext]_vars

(* ------------- the lazily created asyncpg pool of the v1 client ------- *)
\* the extraction tasks process_node runs on its one CachedTavilyClient
NumTasks == 3
Tasks == 1..NumTasks

\* a task that has not called extract yet; pool is the pool _get_db_pool
\* returned to it (0: none yet)
NoTask == [pc |-> "start", pool |-> 0]

LazyUnchanged ==
    UNCHANGED <<run_vars, now, db, lookup, client, connection_pools, http>>

\* process_node has constructed its client (self.pool = None) and started
\* its tasks
LazyInit ==
    /\ StartWith(<<>>)
    /\ openai_key /\ tavily_key
    /\ connection_pools = 0
    /\ pools = NoPools
    /\ instances = <<[NoInstance EXCEPT !.state = "live"]>>
    /\ ops = [k \in Tasks |-> NoTask]
    /\ http = NoRequest

\* _get_db_pool: if self.pool is None, the task awaits asyncpg.create_pool;
\* else it returns self.pool
GetDbPool(k) ==
    /\ ops[k].pc = "start"
    /\ ops' = [ops EXCEPT ![k] =
                 IF instances[1].db_pool = 0
                 THEN [pc |-> "create_pool", pool |-> 0]
                 ELSE [pc |-> "pool", pool |-> instances[1].db_pool]]
    /\ UNCHANGED <<pools, instances>>
    /\ LazyUnchanged

\* asyncpg.create_pool returns: self.pool = the new pool; the task then
\* awaits adispatch_custom_event
CreatePool(k) ==
    /\ ops[k].pc = "create_pool"
    /\ pools' = Append(pools, [class |-> "asyncpg", closed |-> FALSE,
                               used |-> 0])
    /\ instances' = [instances EXCEPT ![1].db_pool = Len(pools) + 1]
    /\ ops' = [ops EXCEPT ![k].pc = "dispatch"]
    /\ LazyUnchanged

\* asyncpg.create_pool raises: the error event is dispatched and the
\* exception re-raised
CreatePoolFails(k) ==
    /\ ops[k].pc = "create_pool"
    /\ ops' = [ops EXCEPT ![k].pc = "raised"]
    /\ UNCHANGED <<pools, instances>>
    /\ LazyUnchanged

\* the event is dispatched: return self.pool
ReturnPool(k) ==
    /\ ops[k].pc = "dispatch"
    /\ ops' = [ops EXCEPT ![k] = [pc |-> "pool",
                                  pool |-> instances[1].db_pool]]
    /\ UNCHANGED <<pools, instances>>
    /\ LazyUnchanged

\* extract: async with pool.acquire() as conn
Acquire(k) ==
    /\ ops[k].pc = "pool"
    /\ pools' = [pools EXCEPT ![ops[k].pool].used = @ + 1]
    /\ ops' = [ops EXCEPT ![k].pc = "acquired"]
    /\ UNCHANGED instances
    /\ LazyUnchanged

\* extract leaves its async with block
Release(k) ==
    /\ ops[k].pc = "acquired"
    /\ pools' = [pools EXCEPT ![ops[k].pool].used = @ - 1]
    /\ ops' = [ops EXCEPT ![k].pc = "done"]
    /\ UNCHANGED instances
    /\ LazyUnchanged

\* process_node's finally clause, after gather: await tavily_client.close(),
\* which closes self.pool if there is one
ClientClose ==
    /\ \A k \in Tasks : ops[k].pc \in {"done", "raised"}
    /\ instances[1].state = "live"
    /\ pools' = IF instances[1].db_pool # 0
                THEN [pools EXCEPT ![instances[1].db_pool].closed = TRUE]
                ELSE pools
    /\ instances' = [instances EXCEPT ![1].state = "closed",
                                      ![1].closes = @ + 1,
                                      ![1].closed_pool = instances[1].db_pool]
    /\ UNCHANGED ops
    /\ LazyUnchanged

LazyNext ==
    \/ \E k \in Tasks : GetDbPool(k)
    \/ \E k \in Tasks : CreatePool(k)
    \/ \E k \in Tasks : CreatePoolFails(k)
    \/ \E k \in Tasks : ReturnPool(k)
    \/ \E k \in Tasks : Acquire(k)
    \/ \E k \in Tasks : Release(k)
    \/ ClientClose

\* one process_node invocation's use of its client's pool
LazySpec == LazyInit /\ [][LazyNext]_vars

(* ------------- concurrent requests that populate one key --------------- *)
\* v2 _extract_internal: INSERT INTO tavily_extract_cache ... ON CONFLICT
\* (url) DO UPDATE SET api_response, creation_date, expires_after_minutes
cache_extract_result(rows, url, api_response, t) ==
    {r \in rows : r.url # url}
       \cup {[url |-> url, api_response |-> api_response,
              creation_date |-> t,
              expires_after_minutes |-> CACHE_EXPIRY_MINUTES]}

\* the key every request of a race is about
RaceQuery == "q0"
RaceUrl == CHOOSE u \in CacheUrls : TRUE
RaceCall ==
    [query |-> RaceQuery, search_depth |-> "basic",
     max_results |-> MAX_TAVILY_SEARCH_RESULTS]
RaceDecision ==
    [time_range |-> "day", cache_duration_minutes |-> MinutesPerDay]

\* what the provider gave a request, which the request then stores
Payloads(op) ==
    CASE op = "cache_extract_result" ->
            {[url |-> RaceUrl, raw_content |-> c] : c \in RawContents}
      [] op = "cache_search_result" ->
            {[results |-> x.results] : x \in {y \in ProviderReplies : y.ok}}
      [] op = "update_url_cache" -> {[url |-> RaceUrl]}

\* the table after the statement of the write w has taken effect; conflict
\* says whether url_cache has a constraint that covers the entry
Stored(rows, w, conflict) ==
    CASE w.op = "cache_extract_result" ->
            [rows EXCEPT !["tavily_extract_cache"] =
                cache_extract_result(@, RaceUrl, w.args, w.at)]
      [] w.op = "cache_search_result" ->
            [rows EXCEPT !["tavily_search_cache"] =
                cache_search_result(@, RaceCall, w.args, RaceDecision, w.at)]
      [] w.op = "update_url_cache" ->
            [rows EXCEPT !["url_cache"] =
                update_url_cache(@, RaceQuery, RaceUrl,
                    DEFAULT_EXPIRES_AFTER_DAYS, w.at, conflict)]

\* a request that has found no row for the key; constraint says whether the
\* table has a unique constraint on the key (the tables whose statement
\* names a conflict target have), seq is the position of the request's
\* commit among the commits
Missed(op, constraint) ==
    [pc |-> "missed", write |-> [op |-> op, at |-> Epoch, args |-> <<>>],
     constraint |-> constraint, seq |-> 0]

RaceUnchanged ==
    UNCHANGED <<run_vars, lookup, client, connection_pools, pools,
                instances, http>>

\* concurrent requests of one kind that have all missed the same key, on an
\* empty store
RaceInit ==
    /\ StartWith(<<>>)
    /\ openai_key /\ tavily_key
    /\ connection_pools = 0
    /\ pools = NoPools
    /\ instances = NoInstances
    /\ \/ \E op \in {"cache_extract_result", "cache_search_result"} :
             ops = [w \in Threads |-> Missed(op, TRUE)]
       \/ \E constraint \in BOOLEAN :
             ops = [w \in Threads |-> Missed("update_url_cache", constraint)]
    /\ http = NoRequest

\* the request has the provider's answer and executes its INSERT ... ON
\* CONFLICT; on a table with a constraint on the key the statement waits
\* until no other transaction holds an uncommitted row of the key
Populate(w) ==
    /\ ops[w].pc = "missed"
    /\ ops[w].constraint => \A v \in Threads : ops[v].pc # "written"
    /\ \E payload \in Payloads(ops[w].write.op) :
          ops' = [ops EXCEPT ![w].pc = "written",
                             ![w].write.at = now,
                             ![w].write.args = payload]
    /\ UNCHANGED <<db, now>>
    /\ RaceUnchanged

\* the transaction of the request commits: _execute_with_connection's
\* conn.commit(), or the end of the v1 statement
Commit(w) ==
    /\ ops[w].pc = "written"
    /\ db' = Stored(db, ops[w].write, ops[w].constraint)
    /\ ops' = [ops EXCEPT
                 ![w].pc = "committed",
                 ![w].seq = 1 + Cardinality({v \in Threads :
                                                ops[v].pc = "committed"})]
    /\ UNCHANGED now
    /\ RaceUnchanged

RaceNext ==
    \/ \E w \in Threads : Populate(w)
    \/ \E w \in Threads : Commit(w)
    \/ Tick

\* requests that race to populate one key of one cache table
RaceSpec == RaceInit /\ [][RaceNext]_vars

(* ------------------- extraction and what it caches --------------------- *)
\* what the extraction provider answers for one url: an entry of 'results'
\* with its raw_content (which may be empty or missing), an entry of
\* 'failed_results', or an exception
ExtractReplies ==
    {[kind |-> "result", raw_content |-> c] : c \in RawContents \cup {""}}
       \cup {[kind |-> "failed", raw_content |-> ""],
             [kind |-> "error", raw_content |-> ""]}

\* how an extract call got its answer: from the cache, or by the outcome of
\* its provider call
ReplyKind(reply) ==
    IF reply.kind = "result" /\ reply.raw_content = "" THEN "empty"
    ELSE reply.kind

\* v1 CachedTavilyClient.extract([url]): the unexpired content_cache row if
\* there is one; else the provider is asked, every entry of 'results' is
\* stored with update_content_cache and an entry of 'failed_results' is
\* answered as empty content
extract_v1(rows, url, t, reply) ==
    LET cached == cached_contents(rows, {url}, t)
    IN  IF cached # {}
        THEN [reply |-> "cached", rows |-> rows, raised |-> FALSE,
              raw_content |-> (CHOOSE r \in cached : TRUE).raw_content]
        ELSE [reply |-> ReplyKind(reply),
              rows |-> IF reply.kind = "result"
                       THEN update_content_cache(rows, url,
                                reply.raw_content,
                                DEFAULT_EXPIRES_AFTER_DAYS, t)
                       ELSE rows,
              raised |-> reply.kind = "error",
              raw_content |-> reply.raw_content]

\* v2 CachedTavilyClient._extract_internal([url]): the unexpired
\* tavily_extract_cache row if there is one; else the provider is asked and
\* every entry of 'results' is stored
extract_v2(rows, url, t, reply) ==
    LET cached == extract_cache_lookup(rows, url, t)
    IN  IF cached # {}
        THEN [reply |-> "cached", rows |-> rows, raised |-> FALSE,
              raw_content |->
                  (CHOOSE r \in cached : TRUE).api_response.raw_content]
        ELSE [reply |-> ReplyKind(reply),
              rows |-> IF reply.kind = "result"
                       THEN cache_extract_result(rows, url,
                                [url |-> url,
                                 raw_content |-> reply.raw_content], t)
                       ELSE rows,
              raised |-> reply.kind = "error",
              raw_content |-> reply.raw_content]

\* a url nobody has extracted yet: the position of its task, the number of
\* extract calls made for it, how the last one got its answer, from which
\* client, and the content it answered
NoExtract ==
    [pc |-> "queued", extracts |-> 0, reply |-> "none", by |-> "none",
     raw_content |-> ""]

\* the provider is asked only if the cache query finds nothing
ExtractAnswers(cached) ==
    IF cached = {} THEN ExtractReplies
    ELSE {[kind |-> "result", raw_content |-> ""]}

ExtractUnchanged ==
    UNCHANGED <<run_vars, now, lookup, client, connection_pools, pools,
                instances, http>>

\* the urls of a search, none extracted, on an empty store
ExtractInit ==
    /\ StartWith(<<>>)
    /\ openai_key /\ tavily_key
    /\ connection_pools = 0
    /\ pools = NoPools
    /\ instances = NoInstances
    /\ ops = [u \in CacheUrls |-> NoExtract]
    /\ http = NoRequest

\* process_single_result up to its classification: tavily_client.extract,
\* then the checks of the response; content that is empty, and a call that
\* raised, go to handle_bad_url, whose delete_from_cache the client does not
\* have
ExtractContent(u) ==
    /\ ops[u].extracts < MaxCalls
    /\ ops[u].pc # "extracted"
    /\ \E reply \in ExtractAnswers(
                       cached_contents(db["content_cache"], {u}, now)) :
          LET e == extract_v1(db["content_cache"], u, now, reply)
          IN  /\ db' = [db EXCEPT !["content_cache"] = e.rows]
              /\ ops' = [ops EXCEPT ![u] =
                           [pc |-> IF e.raised \/ e.raw_content = ""
                                   THEN "bad" ELSE "extracted",
                            extracts |-> ops[u].extracts + 1,
                            reply |-> e.reply, by |-> "v1",
                            raw_content |-> e.raw_content]]
    /\ ExtractUnchanged

\* process_single_result: summarize_content answers the processed content
\* (valid) or None (irrelevant, handed to handle_bad_url)
ClassifyContent(u) ==
    /\ ops[u].pc = "extracted"
    /\ \E verdict \in {"valid", "irrelevant"} :
          ops' = [ops EXCEPT ![u].pc = verdict]
    /\ UNCHANGED db
    /\ ExtractUnchanged

\* v2 CachedTavilyClient.extract([url]) inside _execute_with_connection: an
\* exception rolls the transaction back
ExtractV2(u) ==
    /\ ops[u].extracts < MaxCalls
    /\ \E reply \in ExtractAnswers(
                       extract_cache_lookup(db["tavily_extract_cache"],
                                            u, now)) :
          LET e == extract_v2(db["tavily_extract_cache"], u, now, reply)
          IN  /\ db' = [db EXCEPT !["tavily_extract_cache"] = e.rows]
              /\ ops' = [ops EXCEPT ![u].extracts = @ + 1,
                                    ![u].reply = e.reply,
                                    ![u].by = "v2",
                                    ![u].raw_content = e.raw_content]
    /\ ExtractUnchanged

ExtractNext ==
    \/ \E u \in CacheUrls : ExtractContent(u)
    \/ \E u \in CacheUrls : ClassifyContent(u)
    \/ \E u \in CacheUrls : ExtractV2(u)

\* extract calls of both clients and the classification of what they answer
ExtractSpec == ExtractInit /\ [][ExtractNext]_vars

(* ------------------- the embedding client's batch call ----------------- *)
\* the longest list of texts handed to get_embeddings
MaxTexts == 3
Texts == {"text a", "text b", "text c"}
TextLists == ListsUpTo(Texts, MaxTexts)

\* the embedding the API gives for a text, and what a cache row answers for
\* it: _parse_vector of the text _format_vector wrote with 8 decimals
ApiEmbedding(text) == <<text, "api">>
StoredEmbedding(text) == <<text, "%.8f">>

\* the texts of the list that embedding_cache has no row for, in list order,
\* and their indices
RECURSIVE uncached_indices(_, _, _)
uncached_indices(rows, texts, i) ==
    IF i > Len(texts) THEN <<>>
    ELSE (IF \E r \in rows : r.text = texts[i] THEN <<>> ELSE <<i>>)
            \o uncached_indices(rows, texts, i + 1)

\* the embeddings list after the first loop: one entry per cached text
RECURSIVE cached_embeddings(_, _, _)
cached_embeddings(rows, texts, i) ==
    IF i > Len(texts) THEN <<>>
    ELSE (IF \E r \in rows : r.text = texts[i]
          THEN <<StoredEmbedding(texts[i])>> ELSE <<>>)
            \o cached_embeddings(rows, texts, i + 1)

\* while len(embeddings) <= idx: embeddings.append(None); then
\* embeddings[idx] = embedding  (idx counted from 1 here)
RECURSIVE place(_, _, _)
place(embeddings, idx, embedding) ==
    IF Len(embeddings) < idx
    THEN place(Append(embeddings, None), idx, embedding)
    ELSE [embeddings EXCEPT ![idx] = embedding]

\* the last loop: the new embeddings put at the indices of their texts
RECURSIVE insert_new(_, _, _, _)
insert_new(embeddings, indices, texts, k) ==
    IF k > Len(indices) THEN embeddings
    ELSE insert_new(place(embeddings, indices[k],
                          ApiEmbedding(texts[indices[k]])),
                    indices, texts, k + 1)

\* CachedEmbeddingClient._get_embeddings_internal: what it returns, the batch
\* it sent to the API (none if every text was cached), the table afterwards
get_embeddings(rows, texts) ==
    LET indices == uncached_indices(rows, texts, 1)
    IN  [value |-> insert_new(cached_embeddings(rows, texts, 1), indices,
                              texts, 1),
         batch |-> IF indices = <<>> THEN {}
                   ELSE {[k \in 1..Len(indices) |-> texts[indices[k]]]},
         rows |-> rows \cup {[text |-> texts[indices[k]]] :
                                k \in 1..Len(indices)}]

\* an embedding client on an empty embedding_cache
EmbeddingsInit ==
    /\ StartWith(<<>>)
    /\ openai_key /\ tavily_key
    /\ NoConcurrency

\* CachedEmbeddingClient.get_embeddings(texts)
GetEmbeddings ==
    /\ client.calls < MaxCalls
    /\ \E texts \in TextLists :
          LET e == get_embeddings(db[EmbeddingTable], texts)
          IN  /\ db' = [db EXCEPT ![EmbeddingTable] = e.rows]
              /\ client' =
                   [calls |-> client.calls + 1,
                    llm_calls |-> client.llm_calls,
                    api_calls |-> client.api_calls + Cardinality(e.batch),
                    last |-> [NoCall EXCEPT
                                !.op = "get_embeddings",
                                !.at = now,
                                !.args = [texts |-> texts],
                                !.cached = {r.text : r \in
                                               db[EmbeddingTable]},
                                !.provider = e.batch,
                                !.value = e.value]]
    /\ UNCHANGED now
    /\ ClientUnchanged

EmbeddingsNext == GetEmbeddings

\* get_embeddings calls, one after the other, on a cache that starts empty
EmbeddingsSpec == EmbeddingsInit /\ [][EmbeddingsNext]_vars

(* --------------------- URLValidatorClient.validate_url ----------------- *)
\* the urls handed to validate_url, and what urlparse finds in them
ValidatorUrls ==
    {"https://example.com/a", "http://example.org/b.png", "not-a-url",
     "https://"}
urlparse(url) ==
    CASE url \in {"https://example.com/a", "http://example.org/b.png"} ->
            [scheme |-> TRUE, netloc |-> TRUE]
      [] url = "not-a-url" -> [scheme |-> FALSE, netloc |-> FALSE]
      [] url = "https://" -> [scheme |-> TRUE, netloc |-> FALSE]

\* what session.get of an attempt ends in: an SSL error, another request
\* exception, a status that counts as valid (200-399, or one of
\* VALID_BUT_RESTRICTED_CODES), any other status, or status 200 with an
\* image content type, for which _validate_image fetches the data and finds
\* a known signature or not
Responses ==
    {"SSLError", "RequestException", "valid status", "restricted status",
     "invalid status", "image", "bad image"}

\* try_request: None after an SSL error under verification, else is_valid
try_request(response, verify_ssl) ==
    CASE response = "SSLError" -> IF verify_ssl THEN "None" ELSE "False"
      [] response \in {"valid status", "restricted status", "image"} ->
            "True"
      [] OTHER -> "False"

\* the requests of one try_request: session.get(url, ...), and for an image
\* the session.get of _validate_image
requests_of(with_custom_headers, verify_ssl, response) ==
    <<[with_custom_headers |-> with_custom_headers,
       verify_ssl |-> verify_ssl, for |-> "url", response |-> response]>>
       \o (IF response \in {"image", "bad image"}
           THEN <<[with_custom_headers |-> with_custom_headers,
                   verify_ssl |-> TRUE, for |-> "image",
                   response |-> response]>>
           ELSE <<>>)

\* an attempt order that goes on to the plain attempt after an SSL error
after_attempt_no_retry(pc, is_valid) ==
    IF is_valid = "True" THEN "done"
    ELSE IF pc = "custom headers, verified" \/ pc = "custom headers"
         THEN "no custom headers" ELSE "done"

\* validate_url after the attempt at pc answered is_valid: the attempt that
\* follows, or "done" when validate_url returns
after_attempt(pc, is_valid) ==
    CASE pc = "custom headers, verified" ->
            IF is_valid = "None" THEN "custom headers"
            ELSE IF is_valid = "True" THEN "done" ELSE "no custom headers"
      [] pc = "custom headers" ->
            IF is_valid = "True" THEN "done" ELSE "no custom headers"
      [] pc = "no custom headers" -> "done"

\* the arguments of the attempt at pc
with_custom_headers(pc) == pc # "no custom headers"
verify_ssl(pc) == pc = "custom headers, verified"

ValidateUnchanged ==
    UNCHANGED <<run_vars, now, db, lookup, client, connection_pools, pools,
                instances, ops>>

\* what _check_cache can answer for the url: nothing, or what an earlier
\* validate_url stored for it
CachedAnswers(url) ==
    IF urlparse(url).scheme /\ urlparse(url).netloc
    THEN {"None", "True", "False"} ELSE {"None", "False"}

\* validate_url(url): the cache is asked first, if the client has one
ValidateUrl ==
    /\ http.pc = "none"
    /\ \E url \in ValidatorUrls : \E cached \in CachedAnswers(url) :
          http' = IF cached # "None"
                  THEN [http EXCEPT !.pc = "done", !.url = url,
                                    !.result = cached]
                  ELSE [http EXCEPT !.pc = "parse", !.url = url]
    /\ ValidateUnchanged

\* urlparse: a url without scheme or host is invalid
ParseUrl ==
    /\ http.pc = "parse"
    /\ http' = IF urlparse(http.url).scheme /\ urlparse(http.url).netloc
               THEN [http EXCEPT !.pc = "custom headers, verified"]
               ELSE [http EXCEPT !.pc = "done", !.result = "False"]
    /\ ValidateUnchanged

\* one try_request on a new session, and what validate_url does with its
\* answer
TryRequest ==
    /\ http.pc \in {"custom headers, verified", "custom headers",
                    "no custom headers"}
    /\ \E response \in Responses :
          LET is_valid == try_request(response, verify_ssl(http.pc))
              next == after_attempt(http.pc, is_valid)
          IN  http' = [http EXCEPT
                         !.pc = next,
                         !.requests = @ \o requests_of(
                                            with_custom_headers(http.pc),
                                            verify_ssl(http.pc), response),
                         !.result = IF next = "done" THEN is_valid
                                    ELSE "none"]
    /\ ValidateUnchanged

ValidateNext ==
    \/ ValidateUrl
    \/ ParseUrl
    \/ TryRequest

\* one validate_url call
ValidateSpec == ClientInit /\ [][ValidateNext]_vars

(* ============================ properties ============================== *)
\* every web-search attempt so far ended with too few validated results
NeverSufficient ==
    /\ ws_hist # <<>>
    /\ \A i \in 1..Len(ws_hist) : ws_hist[i] = "insufficient"

\* the web_searcher step that ends an attempt with too few validated results
AttemptEndsInsufficient ==
    /\ node = "web_searcher"
    /\ Len(ws_hist') = Len(ws_hist) + 1
    /\ ws_hist'[Len(ws_hist')] = "insufficient"

\* C1: with MAX_SEARCH_TRIES = 3, a run whose attempts never yield sufficient
\* results makes at most 3 attempts; it leaves the retry loop exactly when
\* the third attempt has failed, after exactly 3 query_interpreter
\* invocations, with status "continue" and with search_results as gathered
\* (nothing was validated).
C1_RetryBound ==
    NeverSufficient =>
        /\ Len(ws_hist) <= MAX_SEARCH_TRIES
        /\ exhausted <=> Len(ws_hist) = MAX_SEARCH_TRIES
        /\ exhausted => qi_calls = MAX_SEARCH_TRIES
        /\ (exhausted /\ node = "check_results") => status = "continue"
        /\ search_results = {}

C1_Witness ==
    NeverSufficient /\ exhausted /\ node = "check_results"

\* C2: once the retry budget is exhausted because results stayed
\* insufficient, the run does not end in status "error".
C2_NoErrorFromInsufficiency ==
    (node = "finished" /\ exhausted /\ NeverSufficient) => status # "error"

\* C3: every run reaches a finish point, and web_searcher is invoked at most
\* MAX_SEARCH_TRIES times.
C3_Terminates ==
    /\ <>(node = "finished" /\ finish_point \in {"end", "handle_error"})
    /\ [](Len(ws_hist) <= MAX_SEARCH_TRIES)

C3_Witness ==
    node = "finished" /\ Len(ws_hist) = MAX_SEARCH_TRIES

\* C4 as stated: an attempt that ends insufficient with retry_count <
\* MAX_SEARCH_TRIES (3) re-enters query_interpreter; retrying stops only when
\* retry_count has reached 3.
C4_Original ==
    [][(AttemptEndsInsufficient /\ retry_count < MAX_SEARCH_TRIES)
          => node' = "query_interpreter"]_vars

\* C4 amended: an attempt that ends insufficient with retry_count <
\* MAX_SEARCH_TRIES - 1 re-enters query_interpreter, and retrying stops only
\* when retry_count has reached MAX_SEARCH_TRIES - 1; the re-entered
\* query_interpreter increments retry_count by exactly one and replaces
\* enhanced_query by the new reformulation, or by nothing when it fails.
C4_Amended ==
    [][/\ (AttemptEndsInsufficient /\ retry_count < MAX_SEARCH_TRIES - 1)
            => (node' = "query_interpreter" /\ ~exhausted')
       /\ (AttemptEndsInsufficient /\ node' # "query_interpreter")
            => (retry_count = MAX_SEARCH_TRIES - 1 /\ exhausted')
       /\ (node = "query_interpreter" /\ status = "insufficient_results")
            => /\ retry_count' = retry_count + 1
               /\ \/ status' = "continue" /\ enhanced_query' \in Queries
                  \/ status' = "error" /\ enhanced_query' = None]_vars

C4_Witness ==
    /\ node = "web_searcher"
    /\ retry_count = MAX_SEARCH_TRIES - 1
    /\ qi_calls = MAX_SEARCH_TRIES

\* C5 as stated: a run whose first attempt is insufficient and whose second
\* attempt is sufficient ends with status "continue", retry_count = 1 and
\* non-empty search_results.
C5_Original ==
    (node = "finished" /\ ws_hist = <<"insufficient", "success">>)
        => (status = "continue" /\ retry_count = 1 /\ search_results # {})

\* C5 amended: in such a run retry_count = 1 and search_results is non-empty
\* from the end of the second attempt on; status is "continue" when the run
\* leaves check_results and when it finishes in end, and "error" only when
\* content editing failed.
C5_Amended ==
    (ws_hist = <<"insufficient", "success">>)
        => /\ retry_count = 1
           /\ search_results # {}
           /\ node \in {"check_results", "content_editor", "end"}
                 => status = "continue"
           /\ (node = "finished" /\ finish_point = "end") => status = "continue"
           /\ node \in {"handle_error", "finished"} /\ status = "error"
                 => /\ Len(error) = 2
                    /\ error[1] \in {"Error editing content: ",
                                     "Error in workflow: "}

C5_Witness ==
    /\ node = "finished" /\ finish_point = "end"
    /\ ws_hist = <<"insufficient", "success">>

\* C6: on every re-entry of query_interpreter after an insufficient attempt,
\* the rejected query named to the reformulation collaborator is the enhanced
\* query of the attempt that just failed, and is not empty.
C6_RejectedQueryHanded ==
    [][(node = "query_interpreter" /\ status = "insufficient_results"
            /\ openai_key)
          => (previous_enhanced_query' = enhanced_query
                /\ previous_enhanced_query' # None)]_vars

C8_ExcludedNotReturned ==
    [][search_calls' > search_calls
          => \A u \in returned' : u.netloc \notin ever_bad]_vars

\* a cached row of an excluded domain was filtered out of a non-empty answer
C8_Witness ==
    /\ search_calls > 0
    /\ returned # {}
    /\ \E u \in cached_rows : u.netloc \in ever_bad

C10_FailedDomainRecorded ==
    \A u \in URLs : task[u] = "bad" => u.netloc \in Range(bad_domains)

\* a per-URL task that was started and has neither completed nor failed
Running == {u \in URLs : task[u] \in {"queued", "extract", "classify"}}

\* C12: no step leaves the processing phase of a search attempt, and so none
\* takes the sufficient/insufficient decision, while a per-URL task of the
\* attempt is still running; the decision counts exactly the tasks that
\* ended valid.
C12_DecisionAfterAllTasks ==
    [][(node = "web_searcher" /\ ws_pc = "process"
            /\ (node' # "web_searcher" \/ ws_pc' # "process"))
          => /\ Running = {}
             /\ Len(ws_hist') = Len(ws_hist) + 1
             /\ ws_hist'[Len(ws_hist')] = "success"
                   <=> Cardinality({u \in URLs : task[u] = "valid"})
                          >= MIN_REQUIRED_RESULTS]_vars

\* every task of a two-URL attempt has ended, one valid and one failed, and
\* the decision is about to be taken
C12_Witness ==
    /\ node = "web_searcher" /\ ws_pc = "process"
    /\ Running = {}
    /\ \E u, v \in URLs : task[u] = "valid" /\ task[v] = "bad"

\* C13: at every instant of the processing phase at most
\* MAX_CONCURRENT_REQUESTS per-URL tasks are inside their extract/classify
\* section, however many URLs the search returned.
C13_PoolBound == Cardinality(InSection) <= MAX_CONCURRENT_REQUESTS

\* the pool is full and a further task of the attempt waits for a permit
C13_Witness ==
    /\ Cardinality(InSection) = MAX_CONCURRENT_REQUESTS
    /\ \E u \in URLs : task[u] = "queued"

\* the messages of the exceptions a node can fail with
ExceptionMessages == CollaboratorErrors \cup {OpenAIKeyMissing}

\* C14: when a node has failed with an exception, the message of that
\* exception, which the node left as the last piece of the error field, is
\* still contained in the error field after the handle_error node, and the
\* status is "error".
C14_ExceptionMessageKept ==
    [][(node = "handle_error" /\ error # None
            /\ error[Len(error)] \in ExceptionMessages)
          => (status' = "error" /\ error[Len(error)] \in Range(error'))]_vars

\* C15: every run ends with a terminal output; its status is one of the
\* workflow's statuses, and when that status is "error" the error field
\* holds a message that is not empty.
C15_TerminalOutput ==
    /\ <>(node = "finished")
    /\ [](node = "finished"
            => /\ status \in {"continue", "error"}
               /\ status = "error"
                     => /\ error # None
                        /\ \A i \in 1..Len(error) : error[i] # "")

C15_Witness ==
    node = "finished" /\ status = "error" /\ error # None

\* C16: in a run that lacks OPENAI_API_KEY or TAVILY_API_KEY,
\* query_interpreter is invoked once and never re-entered, no retry is
\* counted, CachedTavilyClient.search (and so the search provider) is never
\* called, and the run ends with status "error".
C16_MissingCredential ==
    /\ <>(node = "finished")
    /\ []((~openai_key \/ ~tavily_key)
            => /\ qi_calls <= 1
               /\ retry_count = 0
               /\ search_calls = 0
               /\ node = "finished" => status = "error")

\* a run without TAVILY_API_KEY has ended after its only reformulation
C16_Witness ==
    /\ node = "finished" /\ status = "error"
    /\ openai_key /\ ~tavily_key
    /\ qi_calls = 1 /\ Len(ws_hist) = 1

\* C17: a search call that the provider fails with its rate-limit error ends
\* the attempt with a failure kind of its own: the status it leaves is
\* neither "error", the kind of a generic provider error, nor
\* "insufficient_results", and no reformulation retry follows.
C17_RateLimitDistinct ==
    [][(search_calls' > search_calls /\ error' = <<RateLimitError>>)
          => /\ status' \notin {"error", "insufficient_results"}
             /\ node' # "query_interpreter"]_vars

\* the step in which the task of URL u ends in a content-quality failure
TaskFails(u) == task[u] \in {"extract", "classify"} /\ task'[u] = "bad"

\* C18: the failure of one URL's task leaves the run's status and error
\* alone and the other tasks of the attempt where they are; the status is
\* never "error" during the processing phase, the attempt ends "continue" or
\* "insufficient_results", and when a URL has failed the attempt still
\* reaches, inside its processing phase, the point where every task of the
\* attempt has completed or failed.
C18_FailureIsLocal ==
    /\ [][\A u \in URLs : TaskFails(u)
             => /\ status' = status /\ error' = error /\ node' = node
                /\ \A v \in URLs \ {u} : task'[v] = task[v]]_vars
    /\ []((node = "web_searcher" /\ ws_pc = "process") => status # "error")
    /\ [][(node = "web_searcher" /\ ws_pc = "process" /\ ws_pc' # "process")
             => status' \in {"continue", "insufficient_results"}]_vars
    /\ ((\E u \in URLs : task[u] = "bad") /\ Running # {})
          ~> (node = "web_searcher" /\ ws_pc = "process" /\ Running = {})

\* one URL of the attempt has failed and another has been validated
C18_Witness ==
    /\ node = "web_searcher" /\ ws_pc = "process"
    /\ status # "error"
    /\ \E u, v \in URLs : task[u] = "bad" /\ task[v] = "valid"

\* the instant from which the lookups no longer return row r
Expiry(t, r) ==
    IF t \in {"url_cache", "content_cache"}
    THEN r.created_at + r.expires_after_days * MinutesPerDay
    ELSE r.creation_date + r.expires_after_minutes

\* the rows of table t that meet every condition of the lookup l other than
\* the one on time
Candidates(l) ==
    CASE l.table = "url_cache" -> UrlCandidates(db[l.table], l.args.q)
      [] l.table = "content_cache" ->
            ContentCandidates(db[l.table], l.args.urls)
      [] l.table = "tavily_search_cache" ->
            SearchCandidates(db[l.table], l.args.q, l.args.search_depth,
                             l.args.max_results, l.args.time_range)
      [] l.table = "search_cache_duration" ->
            DurationCandidates(db[l.table], l.args.q)
      [] l.table = "tavily_extract_cache" ->
            ExtractCandidates(db[l.table], l.args.url)
      [] OTHER -> {}

\* the lookups that answer every selected row, not the first one
AnswersAll(l) == l.table = "content_cache"

\* C19: whatever the table, a lookup made at instant t answers only rows
\* with t < created_at + ttl, and a row that meets the other conditions of
\* the lookup and has t < created_at + ttl is answered: itself where the
\* lookup answers every row, else a row is answered (for the URL cache a
\* row of the same url, unless LIMIT max_results urls are answered already).
\* So a row is not answered at created_at + ttl and is answered one minute
\* earlier.
C19_StrictExpiry ==
    /\ \A r \in lookup.found : lookup.at < Expiry(lookup.table, r)
    /\ \A r \in Candidates(lookup) :
          lookup.at < Expiry(lookup.table, r)
             => /\ lookup.found # {}
                /\ AnswersAll(lookup) => r \in lookup.found
                /\ lookup.table = "url_cache"
                      => \/ \E s \in lookup.found : s.url = r.url
                         \/ Cardinality({s.url : s \in lookup.found})
                               = lookup.args.max_results

\* one lookup answered a row that expires a minute later and left out a row
\* that meets its other conditions and expires at the instant of the lookup
C19_Witness ==
    \E r \in lookup.found :
    \E s \in Candidates(lookup) \ lookup.found :
        /\ Expiry(lookup.table, r) = lookup.at + 1
        /\ Expiry(lookup.table, s) = lookup.at

\* the threshold of the lookups on table t, in tenths
ThresholdOf(t) ==
    IF t = "url_cache" THEN URL_SIMILARITY_TENTHS ELSE SEARCH_SIMILARITY_TENTHS

\* the value 1 - (a <-> b) that the queries compute is T/10
SimEquals(a, b, T) ==
    100 * SqDist(a, b) = (10 - T) * (10 - T) * EmbScale * EmbScale

\* row r meets the conditions of the lookup l that are not about similarity
MeetsOthers(l, r) ==
    /\ l.at < Expiry(l.table, r)
    /\ l.table = "tavily_search_cache"
          => /\ r.search_depth = l.args.search_depth
             /\ r.max_results >= l.args.max_results
             /\ r.time_range = l.args.time_range

\* C20: in a lookup by similarity (URL cache, TTL-decision cache, search
\* cache) a row that meets the other conditions and whose similarity to the
\* query is exactly the threshold, taken as the cosine similarity or as the
\* value the query itself computes, is matched: the lookup answers a row (for
\* the URL cache a row of that url); and no answered row has a cosine
\* similarity below the threshold.
C20_ThresholdInclusive ==
    lookup.table \in {"url_cache", "search_cache_duration",
                      "tavily_search_cache"}
       => /\ \A r \in db[lookup.table] :
                (/\ MeetsOthers(lookup, r)
                 /\ \/ CosineEquals(r.embedding, lookup.args.q,
                                    ThresholdOf(lookup.table))
                    \/ SimEquals(r.embedding, lookup.args.q,
                                 ThresholdOf(lookup.table)))
                   => /\ lookup.found # {}
                      /\ lookup.table = "url_cache"
                            => \E s \in lookup.found : s.url = r.url
          /\ \A r \in lookup.found :
                ~CosineBelow(r.embedding, lookup.args.q,
                             ThresholdOf(lookup.table))

\* the rows that meet every condition of the lookup l, the one on time too
Matching(l) == {r \in Candidates(l) : l.at < Expiry(l.table, r)}

\* C24: the search-cache lookup answers, among the rows that meet all its
\* conditions, a row of the highest similarity to the query, and among the
\* rows of that similarity one of the largest max_results.
C24_MostSimilarFirst ==
    lookup.table = "tavily_search_cache"
       => \A r \in lookup.found : \A s \in Matching(lookup) :
             /\ SqDist(r.embedding, lookup.args.q)
                   <= SqDist(s.embedding, lookup.args.q)
             /\ SqDist(r.embedding, lookup.args.q)
                   = SqDist(s.embedding, lookup.args.q)
                   => r.max_results >= s.max_results

\* v1 search, cached branch: the urls it returns for the rows the lookup l
\* of the URL cache answered
CachedBranch(l) ==
    FilterCached({r.url : r \in l.found}, l.args.exclude_domains)

\* C25: the cached branch of the URL search returns at most max_results
\* urls, and no url of a valid, non-excluded, similar enough row is left out
\* while the url of a less similar row is returned.
C25_MostSimilarUrls ==
    lookup.table = "url_cache"
       => /\ Cardinality(CachedBranch(lookup)) <= lookup.args.max_results
          /\ \A r \in lookup.found : \A s \in Matching(lookup) :
                (/\ r.url \in CachedBranch(lookup)
                 /\ s.url \in FilterCached({s.url},
                                           lookup.args.exclude_domains)
                 /\ s.url \notin CachedBranch(lookup))
                   => SqDist(r.embedding, lookup.args.q)
                         <= SqDist(s.embedding, lookup.args.q)

\* the step is a call of search
SearchStep == client'.calls = client.calls + 1 /\ client'.last.op = "search"

\* the rows of the search cache that, before a search step, are valid and
\* match the call under the decision the policy gave it
ValidMatching ==
    {r \in SearchCandidates(db["tavily_search_cache"],
                            get_embedding(client'.last.args.query),
                            client'.last.args.search_depth,
                            client'.last.args.max_results,
                            client'.last.decision.time_range) :
        NotExpiredMinutes(r, now)}

\* C21: a search made while the search cache holds a valid matching entry
\* returns the results of such an entry, does not call the provider and
\* leaves the search cache as it was.
C21_CachedSearch ==
    [][(SearchStep /\ ValidMatching # {})
          => /\ ~client'.last.raised
             /\ \E r \in ValidMatching :
                   client'.last.value = r.api_response.results
             /\ client'.api_calls = client.api_calls
             /\ db'["tavily_search_cache"] = db["tavily_search_cache"]]_vars

\* a second search was answered from the cache, with the results a first
\* search had fetched, and the provider was called once in all
C21_Witness ==
    /\ client.last.op = "search"
    /\ client.last.found # {}
    /\ client.calls = 2
    /\ client.api_calls = 1
    /\ client.last.value = <<"result 2">>

\* a search step that found no valid matching entry and whose provider call
\* answered
MissStep == SearchStep /\ ValidMatching = {} /\ ~client'.last.raised

\* the rows the search cache holds, after a search step, under the key of
\* the call: its query, its search_depth, the decision's time_range
StoredRows ==
    {r \in db'["tavily_search_cache"] :
        Conflicts(r, client'.last.args, client'.last.decision.time_range)}

C23_ProviderFailure ==
    [][(SearchStep /\ ValidMatching = {})
          => \A reply \in client'.last.provider :
                ~reply.ok
                   => /\ client'.last.raised
                      /\ client'.last.value
                            = <<"Error calling Tavily API for ",
                                client'.last.args.search_depth,
                                " search: ", reply.message>>
                      /\ client'.api_calls = client.api_calls + 1
                      /\ db'["tavily_search_cache"]
                            = db["tavily_search_cache"]]_vars

\* an advanced search failed at the provider after an earlier search had
\* stored a response
C23_Witness ==
    /\ client.last.op = "search"
    /\ client.last.raised
    /\ client.last.args.search_depth = "advanced"
    /\ client.last.value = <<"Error calling Tavily API for ", "advanced",
                             " search: ", "collaborator error">>
    /\ client.api_calls = 2
    /\ db["tavily_search_cache"] # {}

\* the step is a call of _get_search_cache_duration, on its own or by search
PolicyStep ==
    /\ client'.calls = client.calls + 1
    /\ client'.last.op \in {"get_search_cache_duration", "search"}

\* the decision a row of search_cache_duration holds
DecisionOf(r) ==
    [time_range |-> r.time_range,
     cache_duration_minutes |-> r.cache_duration_minutes]

\* the rows of the decision cache that, before a policy step, are unexpired
\* and of similarity above 0.4 to the query of the call
CachedDecisions ==
    {r \in DurationCandidates(db["search_cache_duration"],
                              get_embedding(client'.last.args.query)) :
        NotExpiredMinutes(r, now)}

\* C26: a policy call made while the decision cache holds an unexpired
\* decision of similarity above 0.4 returns the time_range and the
\* cache_duration_minutes of such a row as they are, does not invoke the
\* reasoning model and leaves the decision cache as it was.
C26_CachedDecision ==
    [][(PolicyStep /\ CachedDecisions # {})
          => /\ \E r \in CachedDecisions :
                   client'.last.decision = DecisionOf(r)
             /\ client'.llm_calls = client.llm_calls
             /\ db'["search_cache_duration"]
                   = db["search_cache_duration"]]_vars

\* the policy answered query q1 with the decision stored for the similar
\* query q0, a duration above the limit included, and the reasoning model
\* was invoked once in all
C26_Witness ==
    /\ client.last.op = "get_search_cache_duration"
    /\ client.last.args.query = "q1"
    /\ \E r \in client.last.cached :
          r.query = "q0" /\ client.last.decision = DecisionOf(r)
    /\ client.last.decision.cache_duration_minutes > MAX_CACHE_MINUTES
    /\ client.llm_calls = 1
    /\ client.calls = 2

\* C27: a policy call that finds no cached decision leaves, when it
\* returns, an unexpired row for its query that holds the decision it
\* returns; and a policy call for a query whose row is unexpired returns
\* that row's decision without invoking the reasoning model.
C27_DecisionPersisted ==
    [][PolicyStep
          => /\ CachedDecisions = {}
                   => \E r \in db'["search_cache_duration"] :
                         /\ r.query = client'.last.args.query
                         /\ DecisionOf(r) = client'.last.decision
                         /\ NotExpiredMinutes(r, now)
             /\ \A r \in db["search_cache_duration"] :
                   (r.query = client'.last.args.query
                       /\ NotExpiredMinutes(r, now))
                      => /\ client'.last.decision = DecisionOf(r)
                         /\ client'.llm_calls = client.llm_calls]_vars

\* the second of two calls for the same query was answered with the row the
\* first call had stored, 'week' for an hour, and the reasoning model was
\* invoked once
C27_Witness ==
    /\ client.calls = 2
    /\ client.llm_calls = 1
    /\ client.last.op = "get_search_cache_duration"
    /\ \E r \in client.last.cached :
          /\ r.query = client.last.args.query
          /\ client.last.decision = DecisionOf(r)
    /\ client.last.decision
          = [time_range |-> "week", cache_duration_minutes |-> 60]

\* C28: when the reasoning model is asked and answers a time_range that is
\* none of day, week, month, year, None, the decision returned and the
\* decision stored have time_range None and the cache_duration_minutes the
\* model gave.
C28_TimeRangeNormalised ==
    [][PolicyStep
          => \A out \in client'.last.llm :
                out.time_range \notin TimeRanges \cup {NULL}
                   => /\ client'.last.decision
                            = [out EXCEPT !.time_range = NULL]
                      /\ \E r \in db'["search_cache_duration"] :
                            /\ r.query = client'.last.args.query
                            /\ DecisionOf(r)
                                  = [out EXCEPT !.time_range = NULL]]_vars

\* C29: every decision the policy returned or stored has a
\* cache_duration_minutes from 0 to 131400.
C29_DurationClamped ==
    /\ \A r \in db["search_cache_duration"] :
          /\ 0 <= r.cache_duration_minutes
          /\ r.cache_duration_minutes <= MAX_CACHE_MINUTES
    /\ client.last.op \in {"get_search_cache_duration", "search"}
          => /\ 0 <= client.last.decision.cache_duration_minutes
             /\ client.last.decision.cache_duration_minutes
                   <= MAX_CACHE_MINUTES

\* the step is a write to a cache table
WriteStep ==
    /\ client'.calls = client.calls + 1
    /\ client'.last.op \in {"update_url_cache", "update_content_cache",
                            "cache_search_result"}

\* the rows that, after a write step, the written table holds under the key
\* of the write
RowsOfKey ==
    LET w == client'.last
    IN  CASE w.op = "update_url_cache" ->
                {r \in db'["url_cache"] :
                    r.query = w.args.query /\ r.url = w.args.url}
          [] w.op = "update_content_cache" ->
                {r \in db'["content_cache"] : r.url = w.args.url}
          [] w.op = "cache_search_result" ->
                {r \in db'["tavily_search_cache"] :
                    Conflicts(r, w.args, w.args.time_range)}
          [] OTHER -> {}

\* row r holds the payload of the write w and the instant of w as its
\* timestamps
HoldsWrite(r, w) ==
    CASE w.op = "update_url_cache" ->
            r.url = w.args.url /\ r.created_at = w.at /\ r.last_updated = w.at
      [] w.op = "update_content_cache" ->
            /\ r.raw_content = w.args.raw_content
            /\ r.created_at = w.at
            /\ r.last_updated = w.at
      [] w.op = "cache_search_result" ->
            r.api_response = w.args.response /\ r.creation_date = w.at
      [] OTHER -> FALSE

\* the lookup l asks for the key of the write w, at an instant at which a
\* row written by w has not expired
AsksFor(l, w) ==
    CASE w.op = "update_url_cache" ->
            /\ l.table = "url_cache"
            /\ l.args.q = get_embedding(w.args.query)
            /\ l.args.max_results = MAX_TAVILY_SEARCH_RESULTS
            /\ l.at < w.at + DEFAULT_EXPIRES_AFTER_DAYS * MinutesPerDay
      [] w.op = "update_content_cache" ->
            /\ l.table = "content_cache"
            /\ w.args.url \in l.args.urls
            /\ l.at < w.at + DEFAULT_EXPIRES_AFTER_DAYS * MinutesPerDay
      [] w.op = "cache_search_result" ->
            /\ l.table = "tavily_search_cache"
            /\ l.args.q = get_embedding(w.args.query)
            /\ l.args.search_depth = w.args.search_depth
            /\ l.args.time_range = w.args.time_range
            /\ l.at < w.at + MinutesPerDay
      [] OTHER -> FALSE

\* C30: after a write to the search cache, the content cache or the URL
\* cache, the table holds exactly one row under the key of the write, with
\* the payload and the instant of that write, also when a row of the key
\* was there before; and a lookup of that key made after the write and
\* before its expiry answers a row with the payload of the write.
C30_LastWriteWins ==
    [][/\ WriteStep
          => /\ Cardinality(RowsOfKey) = 1
             /\ \A r \in RowsOfKey : HoldsWrite(r, client'.last)
       /\ (lookup' # lookup /\ AsksFor(lookup', client.last))
          => \E r \in lookup'.found : HoldsWrite(r, client.last)]_vars

(* ---- C34 ---- *)
\* C34: no call of a cache client holds a pooled database connection
\* while it waits for an external collaborator (embedding provider,
\* reasoning model, search or extraction provider).
C34_NoConnectionWhileWaiting ==
    \A t \in DOMAIN ops : ops[t].waiting # "" => ops[t].held = <<>>

(* ---- C37 ---- *)
\* the calls of _execute_with_connection in progress on the class's pool:
\* one per connection on the stack of a call
InProgressOn(class) ==
    UNION {{<<t, k>> : k \in {j \in DOMAIN ops[t].held :
                                 ops[t].held[j] = class}} : t \in DOMAIN ops}

\* every pool has as many connections checked out as calls in progress
CheckedOutIsInProgress ==
    \A i \in DOMAIN pools :
       pools[i].used = Cardinality(InProgressOn(pools[i].class))

\* C37: _execute_with_connection gives its connection back on every path:
\* a call that returns has committed and holds nothing, a call that raises
\* has rolled back what it held and holds nothing, and at every moment a
\* pool's checked-out connections are as many as the calls in progress on it.
C37_ConnectionReturned ==
    [][/\ CheckedOutIsInProgress'
       /\ \A t \in DOMAIN ops :
             /\ (ops[t].outcome = "none" /\ ops'[t].outcome = "returned")
                   => /\ ops'[t].held = <<>>
                      /\ ops'[t].transaction = "commit"
             /\ (ops[t].outcome = "none"
                    /\ ops'[t].outcome \in {"raised", "PoolError"})
                   => /\ ops'[t].held = <<>>
                      /\ ops[t].held # <<>>
                            => ops'[t].transaction = "rollback"
             /\ Len(ops'[t].held) < Len(ops[t].held)
                   => ops'[t].transaction \in {"commit", "rollback"}]_vars

\* a call has raised and rolled back while another is inside a nested
\* _execute_with_connection, holding two connections
C37_Witness ==
    \E t, u \in DOMAIN ops :
       /\ ops[t].outcome = "raised"
       /\ ops[t].transaction = "rollback"
       /\ ops[u].outcome = "none"
       /\ Len(ops[u].held) = 2

(* ---- C38 ---- *)
\* C38: on pools bounded at max_connections = N, N concurrent search or
\* nearest_neighbors calls all complete: none fails because the pool has no
\* connection left for the second one a call needs.
C38_NoPoolExhaustion ==
    \A t \in DOMAIN ops :
       ops[t].op \in {"search", "nearest_neighbors"}
          => ops[t].outcome # "PoolError"

(* ---- C40 ---- *)
\* C40: closing one client object does not break the other live objects of
\* its class in the process: an object that was not closed still executes
\* its cache operations after another object's close(), and close() on an
\* object that is already closed does nothing.
C40_CloseIsLocal ==
    [][\A i \in DOMAIN instances :
          /\ instances'[i].state = "live"
                => instances'[i].last # "PoolError"
          /\ (instances[i].state = "closed"
                 /\ instances'[i].closes > instances[i].closes)
                => pools' = pools /\ connection_pools' = connection_pools]_vars

(* ---- C39 ---- *)
\* C39: one asyncpg-backed client object creates at most one pool, even
\* when several concurrent tasks trigger the lazy first use at once, and
\* close() closes every pool that was created.
C39_OnePool ==
    /\ Len(pools) <= 1
    /\ \A i \in DOMAIN instances :
          instances[i].state = "closed"
             => \A p \in DOMAIN pools : pools[p].closed

(* ---- C31 ---- *)
\* the rows the table of the race holds under the key of the race
RaceRows(op) ==
    CASE op = "cache_extract_result" ->
            {r \in db["tavily_extract_cache"] : r.url = RaceUrl}
      [] op = "cache_search_result" ->
            {r \in db["tavily_search_cache"] :
                Conflicts(r, RaceCall, RaceDecision.time_range)}
      [] op = "update_url_cache" ->
            {r \in db["url_cache"] : r.query = RaceQuery /\ r.url = RaceUrl}

\* row r holds what the write w stored, and the instant of w
HoldsPayload(r, w) ==
    IF w.op = "cache_extract_result"
    THEN r.api_response = w.args /\ r.creation_date = w.at
    ELSE HoldsWrite(r, [w EXCEPT !.args = [url |-> RaceUrl,
                                           response |-> w.args]])

\* C31: when concurrent requests have missed the same cache key and have
\* all populated it, the cache holds exactly one row for the key, with the
\* payload of the write that committed last.
C31_ConcurrentPopulation ==
    (ops # NoOps /\ \A w \in DOMAIN ops : ops[w].pc = "committed")
       => \A w \in DOMAIN ops :
             ops[w].seq = Cardinality(DOMAIN ops)
                => /\ Cardinality(RaceRows(ops[w].write.op)) = 1
                   /\ \A r \in RaceRows(ops[w].write.op) :
                         HoldsPayload(r, ops[w].write)

(* ---- C32 ---- *)
\* C32: a url's content is in the content cache (and the url in the URL
\* cache) only after the content was extracted and classified valid: content
\* that is invalid, or not classified yet, is never in the cache.
C32_CachedAfterValidation ==
    \A u \in DOMAIN ops :
       (\E r \in db["content_cache"] \cup db["url_cache"] : r.url = u)
          => ops[u].pc = "valid"

(* ---- C33 ---- *)
\* the step is an extract call for u
ExtractStep(u) == ops'[u].extracts = ops[u].extracts + 1
\* outcomes of an extract call that are failures
FailedExtract == {"failed", "empty", "error"}

\* C33: an extraction that failed (the provider reported a failure or
\* raised, or the content of its result is empty) writes no row to the
\* content cache or the extract cache, and the next extract of the same url
\* with the same client asks the provider again.
C33_FailureNotCached ==
    [][\A u \in DOMAIN ops :
          ExtractStep(u)
             => /\ ops'[u].reply \in FailedExtract => db' = db
                /\ (ops[u].reply \in FailedExtract /\ ops'[u].by = ops[u].by)
                      => ops'[u].reply # "cached"]_vars

(* ---- C35 ---- *)
\* the texts of the list that were not cached before the call, in order
UncachedOf(texts, cached) == SelectSeq(texts, LAMBDA t : t \notin cached)

\* C35: get_embeddings(texts) returns a list as long as texts whose i-th
\* element is the embedding of texts[i], for any mix of cached and uncached
\* texts in any order; only the uncached texts are sent to the API, in one
\* batch call, and each of them is cached afterwards.
C35_EmbeddingsInOrder ==
    client.last.op = "get_embeddings"
       => LET texts == client.last.args.texts
              value == client.last.value
              uncached == UncachedOf(texts, client.last.cached)
          IN  /\ Len(value) = Len(texts)
              /\ \A i \in 1..Len(texts) :
                    value[i] \in {ApiEmbedding(texts[i]),
                                  StoredEmbedding(texts[i])}
              /\ client.last.provider =
                    (IF uncached = <<>> THEN {} ELSE {uncached})
              /\ \A i \in 1..Len(uncached) :
                    \E r \in db[EmbeddingTable] : r.text = uncached[i]

(* ---- C36 ---- *)
\* the attempts among the requests made: the requests for the url itself
Attempts == SelectSeq(http.requests, LAMBDA r : r.for = "url")
Attempted(r, custom, verify) ==
    r.with_custom_headers = custom /\ r.verify_ssl = verify

\* the attempts are at most three, in the order: custom headers with SSL
\* verification; only after an SSL error of that one, custom headers without
\* verification; then no custom headers and no verification; none follows
\* an attempt that found the url valid; a url without scheme or host is
\* answered False with no request
AttemptsInOrder ==
    /\ Len(Attempts) <= 3
    /\ Len(Attempts) >= 1 => Attempted(Attempts[1], TRUE, TRUE)
    /\ Len(Attempts) >= 2 =>
          IF Attempts[1].response = "SSLError"
          THEN Attempted(Attempts[2], TRUE, FALSE)
          ELSE Attempted(Attempts[2], FALSE, FALSE)
    /\ Len(Attempts) = 3 =>
          /\ Attempts[1].response = "SSLError"
          /\ Attempted(Attempts[3], FALSE, FALSE)
    /\ \A k \in 1..(Len(Attempts) - 1) :
          try_request(Attempts[k].response, Attempts[k].verify_ssl) # "True"
    /\ (http.pc = "done" /\ http.requests # <<>>)
          => http.result = try_request(Attempts[Len(Attempts)].response,
                                       Attempts[Len(Attempts)].verify_ssl)
    /\ (http.url # "" /\ ~(urlparse(http.url).scheme
                             /\ urlparse(http.url).netloc))
          => http.requests = <<>> /\ http.result \in {"none", "False"}

\* C36 (as stated): validate_url makes at most three requests, in the order
\* above, and none after one found the url valid.
C36_Original ==
    /\ AttemptsInOrder
    /\ Len(http.requests) <= 3
    /\ Attempts = http.requests

\* C36 (amended): validate_url makes at most three attempts, in the order
\* above, and none after one found the url valid; an attempt is one request
\* for the url, followed by one more request (the image check) exactly when
\* the response is a 200 with an image content type.
C36_Amended ==
    /\ AttemptsInOrder
    /\ \A i \in 1..Len(http.requests) :
          http.requests[i].for = "image"
             => /\ i > 1
                /\ http.requests[i - 1].for = "url"
                /\ http.requests[i - 1].response \in {"image", "bad image"}
    /\ \A i \in 1..Len(http.requests) :
          (http.requests[i].for = "url"
              /\ http.requests[i].response \in {"image", "bad image"})
             => /\ i < Len(http.requests)
                /\ http.requests[i + 1].for = "image"

\* the call has answered after three attempts and, with the image checks
\* among them, more than three requests
C36_Witness ==
    /\ http.pc = "done"
    /\ Len(Attempts) = 3
    /\ Len(http.requests) > 3

=============================================================================
